---- MODULE Spec2Model ----
(***************************************************************************)
(* Dynamic Route Core of kengoodridge/ai-chatbot.                          *)
(*                                                                         *)
(* The Store (tables Project, Endpoint, Page), the dispatcher's registry   *)
(* (dynamicRouteManager.dynamicRoutes), the legacy registry                *)
(* (endpointManager of lib/endpoint-manager.ts), the initialization scan   *)
(* and the CRUD / dispatch request handlers.  A handler is a sequence of   *)
(* steps, one per suspension point that touches shared state.             *)
(*                                                                         *)
(* Strings that the code inspects (paths, project names) are sequences of  *)
(* one-character strings, so that startsWith, replace and the template     *)
(* literals are computed as the code computes them.                       *)
(***************************************************************************)
EXTENDS Integers, Sequences, FiniteSets, TLC

\* ------------------------------------------------------------------ bounds
MaxRequests == 2      \* requests started in one behaviour
MaxInFlight == 2      \* request handlers suspended at the same time
MaxScans == 2         \* invocations of loadAllRoutes that reach the Store

\* ----------------------------------------------------------------- strings
StartsWith(s, pre) ==
  /\ Len(s) >= Len(pre)
  /\ SubSeq(s, 1, Len(pre)) = pre

EndsWith(s, suf) ==
  /\ Len(s) >= Len(suf)
  /\ SubSeq(s, Len(s) - Len(suf) + 1, Len(s)) = suf

Slice(s, from) == SubSeq(s, from, Len(s))

SLASH == <<"/">>
API == <<"/", "a", "p", "i">>
APISLASH == <<"/", "a", "p", "i", "/">>
APIAPISLASH == <<"/", "a", "p", "i", "/", "a", "p", "i", "/">>

\* String.prototype.toLowerCase on the alphabet of the model
LowerChar(c) ==
  CASE c = "S" -> "s"
    [] c = "T" -> "t"
    [] OTHER -> c

ToLowerCase(s) == [i \in 1..Len(s) |-> LowerChar(s[i])]

IsSpace(c) == c = " "

\* s.replace(/\s+/g, '-'): every maximal run of whitespace becomes one '-'
RECURSIVE ReplaceSpaces(_)
ReplaceSpaces(s) ==
  IF s = <<>> THEN <<>>
  ELSE IF IsSpace(Head(s))
       THEN IF Len(s) > 1 /\ IsSpace(s[2])
            THEN ReplaceSpaces(Tail(s))
            ELSE <<"-">> \o ReplaceSpaces(Tail(s))
       ELSE <<Head(s)>> \o ReplaceSpaces(Tail(s))

\* project.name.toLowerCase().replace(/\s+/g, '-')
ProjectSlug(name) == ReplaceSpaces(ToLowerCase(name))

\* path.startsWith('/') ? path : `/${path}`
LeadingSlash(path) == IF StartsWith(path, SLASH) THEN path ELSE SLASH \o path

\* POST /api/endpoints: `/${projectName}/api${sanitizedPath}`
EndpointFullPath(name, path) ==
  SLASH \o ProjectSlug(name) \o API \o LeadingSlash(path)

\* POST /api/pages: `/${projectName}${sanitizedPath}`
PageFullPath(name, path) == SLASH \o ProjectSlug(name) \o LeadingSlash(path)

\* DynamicRouteManager.sanitizePath
\* the path keeps its first character
sanitizePathNoLeadingSlash(path) ==
  IF path # SLASH /\ EndsWith(path, SLASH) THEN SubSeq(path, 1, Len(path) - 1)
  ELSE path

sanitizePath(path) ==
  LET p1 == IF StartsWith(path, SLASH) THEN path ELSE SLASH \o path
  IN  IF p1 # SLASH /\ EndsWith(p1, SLASH) THEN SubSeq(p1, 1, Len(p1) - 1) ELSE p1

\* handleRequest: the /api prefix handling before sanitizePath
ProcessedPath(path) ==
  IF StartsWith(path, API)
  THEN IF StartsWith(path, APIAPISLASH)
       THEN APISLASH \o Slice(path, Len(APIAPISLASH) + 1)
       ELSE path
  ELSE API \o path

\* the registry key handleRequest looks up for the catch-all path r
CanonicalKey(path) == sanitizePath(ProcessedPath(path))

\* ------------------------------------------------------------ input sets
Users == {"u1", "u2"}
ProjIds == {"pr1", "pr2"}
Methods == {"GET", "POST"}
Languages == {"javascript", "python"}
NoRow == [id |-> 0]                 \* `undefined` returned by a get-by-id/path query
NoProject == [id |-> "none"]
Missing == <<>>                     \* an absent or empty request field

\* user-supplied paths of create requests
UserPaths == {<<"a">>}
\* user-supplied paths of page create requests
PageUserPaths == UserPaths \cup {<<"/", "a", "p", "i", "/", "a">>}
\* paths a PUT may set directly
PutPaths == {<<"/", "a", "p", "i", "/", "s", "/", "b">>,
             <<"/", "a", "p", "i", "/", "a", "u", "t", "h", "/", "x">>}
\* descriptions given to the generate routes
Descriptions == {<<"d">>}

\* JavaScript values that cross the dispatcher
JsString(str) == [type |-> "string", value |-> str]
JsNumber(n) == [type |-> "number", value |-> n]
JsNull == [type |-> "null"]
EmptyObject == [k \in {} |-> JsNull]

\* query strings of dispatched requests: key=value pairs in their order
Queries == {<<>>, << <<"q", "5">>, <<"z", "1">>, <<"q", "6">> >>}

\* bodies of dispatched POST requests: text that parses to value, or does not
InvalidJson == [ok |-> FALSE]
JsonBodies == {[ok |-> TRUE, value |-> [x |-> JsNumber(5)]],
               [ok |-> TRUE, value |-> EmptyObject],
               InvalidJson}

\* URLSearchParams.get(name): the first value of the key, or null
RECURSIVE SearchParamsGet(_, _)
SearchParamsGet(query, name) ==
  IF query = <<>> THEN JsNull
  ELSE IF Head(query)[1] = name THEN JsString(Head(query)[2])
  ELSE SearchParamsGet(Tail(query), name)

\* a marshalling that hands every key of the query string to the handler
GetParamsAllKeys(parameters, query) ==
  [p \in {query[i][1] : i \in 1..Len(query)} |-> SearchParamsGet(query, p)]

\* route.parameters.forEach(param => params[param] = url.searchParams.get(param))
GetParams(parameters, query) ==
  [p \in {parameters[i] : i \in 1..Len(parameters)} |-> SearchParamsGet(query, p)]

\* a marshalling that hands the body's values to the handler as strings
PostParamsAsStrings(json) ==
  [k \in DOMAIN json.value |-> JsString(ToString(json.value[k].value))]

\* params = await request.json()
PostParams(json) == json.value

\* the call route.function(params): the handler compiled from code "deref"
\* reads a property of params.x and throws a TypeError when params has no x;
\* a stub returns its error object; the other handlers return their result
\* the function of a Python endpoint catches what pyFunc raises and returns
\* an error object; the placeholder returns its error object
RunOutcome(fn, params) ==
  IF fn.kind = "stub"
  THEN [threw |-> FALSE,
        result |-> [kind |-> "stub", error |-> fn.error, details |-> fn.details]]
  ELSE IF fn.kind = "placeholder"
  THEN [threw |-> FALSE, result |-> [kind |-> "loading", error |-> fn.error]]
  ELSE IF fn.code \in {"deref", "py_deref"} /\ "x" \notin DOMAIN params
  THEN IF fn.kind = "python"
       THEN [threw |-> FALSE,
             result |-> [kind |-> "stub", error |-> "Python execution error",
                         details |-> <<"KeyError">>]]
       ELSE [threw |-> TRUE,
             message |-> "TypeError: Cannot read properties of undefined"]
  ELSE [threw |-> FALSE, result |-> [kind |-> "result", code |-> fn.code]]
\* guest sources, told apart by what node:vm does with them

\* what `new vm.Script(code + "endpoint_function;").runInContext(ctx)` yields
\* the Python source the generate route gets or falls back to, for each source
\* it would get in JavaScript
PythonSource(code) ==
  CASE code = "fallback" -> "py_fallback"
    [] code = "deref" -> "py_deref"
    [] OTHER -> "py_other"

PythonSources == {"py_fallback", "py_deref", "py_other"}

\* Python source is not a JavaScript program
VmOutcome(code) ==
  CASE code = "garbage" -> "SyntaxError"
    [] code \in PythonSources -> "SyntaxError"
    [] code = "nofn" -> "NotAFunction"
    [] OTHER -> "Function"

\* execError.message caught in registerEndpoint
CompileMessage(code, path) ==
  IF VmOutcome(code) = "SyntaxError"
  THEN <<"SyntaxError: Unexpected identifier">>
  ELSE <<"Invalid function definition in endpoint at", path>>

\* parameters.join(',') of createEndpoint / updateEndpoint (names are one character)
RECURSIVE JoinParams(_)
JoinParams(ps) ==
  IF ps = <<>> THEN <<>>
  ELSE IF Len(ps) = 1 THEN <<ps[1]>>
  ELSE <<ps[1], ",">> \o JoinParams(Tail(ps))

\* endpoint.parameters ? endpoint.parameters.split(',') : []
RECURSIVE SplitParams(_)
SplitParams(str) ==
  IF str = <<>> THEN <<>>
  ELSE IF Len(str) = 1 THEN <<str[1]>>
  ELSE IF str[2] = "," THEN <<str[1]>> \o SplitParams(Slice(str, 3))
  ELSE <<str[1]>> \o SplitParams(Tail(str))

\* ------------------------------------------------------------------ state
VARIABLES
  projects,               \* table Project: id -> row or NoProject
  endpoints,              \* table Endpoint: set of rows
  pages,                  \* table Page: set of rows
  nextId,                 \* createId(): ids are never reused
  dynamicRoutes,          \* dynamicRouteManager.dynamicRoutes: path -> RouteInfo
  legacyRoutes,           \* endpointManager.dynamicRoutes of lib/endpoint-manager.ts
  isInitialized,          \* dynamicRouteManager.isInitialized
  initializationPromise,  \* "null", "pending", "fulfilled" or "rejected"
  load,                   \* where loadAllRoutes stands: the query it awaits, "done" or "failed"
  scansStarted,           \* calls of loadAllRoutes that went on to read the Store
  reqs,                   \* request handlers in flight: slot -> handler state
  last,                   \* the request answered last, with its answer
  started                 \* requests started so far

vars == <<projects, endpoints, pages, nextId, dynamicRoutes, legacyRoutes,
          isInitialized, initializationPromise, load, scansStarted, reqs, last, started>>

store == <<projects, endpoints, pages, nextId>>
initState == <<isInitialized, initializationPromise, load, scansStarted>>

Slots == 1..MaxInFlight

Idle == [op |-> "idle", pc |-> "idle"]

\* ------------------------------------------------------------ Store reads
\* getProjectById: `result.id` of an empty result throws a TypeError
ProjectMissing(id) == projects[id] = NoProject

\* getEndpointById
getEndpointById(id) ==
  IF \E e \in endpoints : e.id = id
  THEN CHOOSE e \in endpoints : e.id = id
  ELSE NoRow

\* getEndpointByPath
getEndpointByPath(path) ==
  IF \E e \in endpoints : e.path = path
  THEN CHOOSE e \in endpoints : e.path = path
  ELSE NoRow

\* getPageById
getPageById(id) ==
  IF \E p \in pages : p.id = id
  THEN CHOOSE p \in pages : p.id = id
  ELSE NoRow

\* getPageByPath
getPageByPath(path) ==
  IF \E p \in pages : p.path = path
  THEN CHOOSE p \in pages : p.path = path
  ELSE NoRow

\* the owner of an endpoint, page or project row, "nobody" without the row
EndpointOwner(id) ==
  IF getEndpointById(id) = NoRow THEN "nobody" ELSE getEndpointById(id).userId

PageOwner(id) ==
  IF getPageById(id) = NoRow THEN "nobody" ELSE getPageById(id).userId

ProjectOwner(id) ==
  IF ProjectMissing(id) THEN "nobody" ELSE projects[id].userId

\* ---------------------------------------------------------------- registry
\* the RouteInfo registerEndpoint installs for language 'javascript'
JsRouteInfo(path, parameters, code, httpMethod) ==
  [type |-> "endpoint",
   path |-> path,
   parameters |-> parameters,
   function |->
     IF VmOutcome(code) = "Function"
     THEN [kind |-> "compiled", code |-> code]
     ELSE [kind |-> "stub",
           error |-> "JavaScript endpoint code compilation error",
           details |-> CompileMessage(code, path)],
   httpMethod |-> httpMethod,
   language |-> "javascript"]

\* registerEndpoint (python): the entry installed while the interpreter loads
PythonPlaceholderInfo(path, parameters, httpMethod) ==
  [type |-> "endpoint",
   path |-> path,
   parameters |-> parameters,
   function |-> [kind |-> "placeholder",
                 error |-> "Python endpoint is still initializing"],
   httpMethod |-> httpMethod,
   language |-> "python"]

\* what Python.startup(), py.exec and py.eval come to: the function object of
\* the wrapped code, or an exception
PythonOutcomes == {"Function", "Error"}

\* registerEndpoint (python): the entry installed once the interpreter answered
PythonRouteInfo(path, parameters, code, httpMethod, outcome) ==
  [type |-> "endpoint",
   path |-> path,
   parameters |-> parameters,
   function |->
     IF outcome = "Function"
     THEN [kind |-> "python", code |-> code]
     ELSE [kind |-> "stub",
           error |-> "Python endpoint code compilation error",
           details |-> <<"Python error">>],
   httpMethod |-> httpMethod,
   language |-> "python"]

\* the RouteInfo EndpointManager.registerEndpoint installs (legacy manager)
LegacyRouteInfo(path, parameters, code, httpMethod) ==
  [type |-> "endpoint",
   path |-> path,
   parameters |-> parameters,
   function |->
     IF VmOutcome(code) = "Function"
     THEN [kind |-> "compiled", code |-> code]
     ELSE [kind |-> "stub",
           error |-> "Endpoint code compilation error",
           details |-> CompileMessage(code, path)],
   httpMethod |-> httpMethod]

\* the RouteInfo registerPage installs
PageRouteInfo(path, htmlContent) ==
  [type |-> "page", path |-> path, htmlContent |-> htmlContent]

\* this.dynamicRoutes[path] = info
Install(routes, path, info) ==
  [k \in (DOMAIN routes) \cup {path} |-> IF k = path THEN info ELSE routes[k]]

\* delete this.dynamicRoutes[path]
Remove(routes, path) == [k \in (DOMAIN routes) \ {path} |-> routes[k]]

\* getRegisteredRoutes
getRegisteredRoutes == DOMAIN dynamicRoutes

EmptyRoutes == [k \in {} |-> NoRow]

\* the loop of loadAllRoutes over the endpoints it read: the language column is
\* not selected by getAllEndpoints, so every row is registered as javascript
RegisterEndpointRows(routes, rows) ==
  [k \in (DOMAIN routes) \cup {e.path : e \in rows} |->
     IF \E e \in rows : e.path = k
     THEN LET e == CHOOSE x \in rows : x.path = k
          IN  JsRouteInfo(e.path, SplitParams(e.parameters), e.code, e.httpMethod)
     ELSE routes[k]]

\* the loop of loadAllRoutes over the pages it read
RegisterPageRows(routes, rows) ==
  [k \in (DOMAIN routes) \cup {p.path : p \in rows} |->
     IF \E p \in rows : p.path = k
     THEN LET p == CHOOSE x \in rows : x.path = k
          IN  PageRouteInfo(p.path, p.htmlContent)
     ELSE routes[k]]

\* ------------------------------------------------------------------- Init
\* the process after module load: the constructor has called loadAllRoutes,
\* which is suspended in getAllEndpoints; the Store holds two projects
Init ==
  /\ projects = [id \in ProjIds |->
        IF id = "pr1" THEN [id |-> "pr1", name |-> <<"S">>, userId |-> "u1"]
        ELSE [id |-> "pr2", name |-> <<"s">>, userId |-> "u2"]]
  /\ endpoints = {}
  /\ pages = {}
  /\ nextId = 1
  /\ dynamicRoutes = EmptyRoutes
  /\ legacyRoutes = EmptyRoutes
  /\ isInitialized = FALSE
  /\ initializationPromise = "pending"
  /\ load = "getAllEndpoints"
  /\ scansStarted = 1
  /\ reqs = [r \in Slots |-> Idle]
  /\ last = Idle
  /\ started = 0

\* --------------------------------------------------------- loadAllRoutes
\* getAllEndpoints answers and the loop registers every row it returned (the
\* awaits inside the loop are on registrations that need no I/O, so the read
\* and the loop are taken as one step); then getAllPages is issued
LoadEndpoints ==
  /\ load = "getAllEndpoints"
  /\ dynamicRoutes' = RegisterEndpointRows(dynamicRoutes, endpoints)
  /\ load' = "getAllPages"
  /\ UNCHANGED <<store, legacyRoutes, isInitialized, initializationPromise,
                 scansStarted, reqs, last, started>>

\* getAllPages answers, the pages are registered, isInitialized is set and
\* the promise held in initializationPromise is fulfilled
LoadPages ==
  /\ load = "getAllPages"
  /\ dynamicRoutes' = RegisterPageRows(dynamicRoutes, pages)
  /\ isInitialized' = TRUE
  /\ initializationPromise' = "fulfilled"
  /\ load' = "done"
  /\ UNCHANGED <<store, legacyRoutes, scansStarted, reqs, last, started>>

\* getAllEndpoints or getAllPages throws: loadAllRoutes rethrows, the promise
\* held in initializationPromise is rejected and nothing resets the field
LoadFail ==
  /\ load \in {"getAllEndpoints", "getAllPages"}
  /\ initializationPromise' = "rejected"
  /\ load' = "failed"
  /\ UNCHANGED <<store, dynamicRoutes, legacyRoutes, isInitialized,
                 scansStarted, reqs, last, started>>


\* ------------------------------------------------------- request handlers
InFlight == {r \in Slots : reqs[r].pc # "idle"}
Free == Slots \ InFlight

ErrorBody(msg) == [kind |-> "error", error |-> msg]

\* a request arrives: it takes the lowest free slot
Begin(r) ==
  /\ started < MaxRequests
  /\ r \in Free
  /\ \A q \in Free : r <= q
  /\ started' = started + 1

\* fields every handler state has; target: the owner of the row the request
\* names, as the Store has it on arrival; raced: another request took this
\* one's path in the Store while this one was in flight
Base(op, user, target) ==
  [op |-> op, user |-> user, target |-> target, raced |-> FALSE]

\* the handler suspends at its next Store or registry call
Enter(r, rec, pc) ==
  /\ reqs' = [reqs EXCEPT ![r] = rec @@ [pc |-> pc]]
  /\ last' = last

\* what is remembered of an answered request: who asked for what, and the answer
KeptFields == {"op", "user", "target", "raced", "id", "projectId", "slug", "userPath",
               "description", "fullPath", "oldPath", "data", "branch",
               "sawPromise", "path", "method", "query", "json",
               "invoked", "params"}

Answered(rec, status, body) ==
  [status |-> status, body |-> body] @@
  [f \in (DOMAIN rec) \cap KeptFields |-> rec[f]]

\* the handler answers on arrival
Answer(r, rec, status, body) ==
  /\ reqs' = reqs
  /\ last' = Answered(rec, status, body)

Goto(r, pc) ==
  /\ reqs' = [reqs EXCEPT ![r].pc = pc]
  /\ last' = last

\* the handler's insert went through: it goes on to pc with the row's id, and
\* the handlers of ops waiting to insert the same path have lost the race
Inserted(r, pc, ops) ==
  /\ reqs' = [q \in Slots |->
       IF q = r THEN [reqs[r] EXCEPT !.pc = pc, !.id = nextId]
       ELSE IF reqs[q].pc = "insert" /\ reqs[q].op \in ops
               /\ reqs[q].fullPath = reqs[r].fullPath
       THEN [reqs[q] EXCEPT !.raced = TRUE]
       ELSE reqs[q]]
  /\ last' = last

\* the handler answers and ends
Finish(r, status, body) ==
  /\ reqs' = [reqs EXCEPT ![r] = Idle]
  /\ last' = Answered(reqs[r], status, body)

\* ------------------------------------------------- POST /api/endpoints
\* the checks before createEndpoint; 0: passed.  getProjectById dereferences
\* the first result row, so a missing project ends in the catch block (500)
PostEndpointCheck(user, projectId, path, code) ==
  IF path = Missing \/ code = "" THEN 400
  ELSE IF ProjectMissing(projectId) THEN 500
  ELSE IF projects[projectId].userId # user THEN 403
  ELSE 0

\* the httpMethod a POST /api/endpoints body may carry ("" when it has none)
CreateMethods == {"", "delete"}

\* String.prototype.toUpperCase on the method names used here
MethodToUpperCase(m) ==
  CASE m = "get" -> "GET"
    [] m = "post" -> "POST"
    [] m = "delete" -> "DELETE"
    [] OTHER -> m

\* the default of the destructuring (httpMethod = 'GET'), then toUpperCase
CreateMethod(m) == MethodToUpperCase(IF m = "" THEN "GET" ELSE m)

PostEndpointStart(r, user, projectId, path, code, httpMethod) ==
  /\ Begin(r)
  /\ LET st == PostEndpointCheck(user, projectId, path, code)
         rec == Base("postEndpoint", user, ProjectOwner(projectId)) @@
                [projectId |-> projectId, userPath |-> path, code |-> code,
                 httpMethod |-> CreateMethod(httpMethod), parameters |-> <<>>,
                 fullPath |-> IF st = 0
                              THEN EndpointFullPath(projects[projectId].name, path)
                              ELSE Missing,
                 slug |-> IF st = 0 THEN ProjectSlug(projects[projectId].name)
                          ELSE Missing,
                 id |-> 0]
     IN  IF st = 0 THEN Enter(r, rec, "insert")
         ELSE Answer(r, rec, st, ErrorBody("refused"))
  /\ UNCHANGED <<store, dynamicRoutes, legacyRoutes, initState>>

\* createEndpoint: db.insert under the unique index on Endpoint.path
EndpointRow(id, path, parameters, code, httpMethod, language, projectId, userId) ==
  [id |-> id, path |-> path, parameters |-> JoinParams(parameters), code |-> code,
   httpMethod |-> httpMethod, language |-> language,
   projectId |-> projectId, userId |-> userId]

\* the status the route answers when the insert throws
InsertConflictStatus == 500

\* the route registers the endpoint although createEndpoint refused the row
PostEndpointInsertRegistering(r) ==
  /\ reqs[r].op = "postEndpoint" /\ reqs[r].pc = "insert"
  /\ IF \E e \in endpoints : e.path = reqs[r].fullPath
     THEN /\ Finish(r, InsertConflictStatus,
                    ErrorBody("An error occurred while creating the endpoint"))
          /\ dynamicRoutes' = Install(dynamicRoutes, reqs[r].fullPath,
                JsRouteInfo(reqs[r].fullPath, reqs[r].parameters, reqs[r].code,
                            reqs[r].httpMethod))
          /\ UNCHANGED <<endpoints, nextId>>
     ELSE /\ endpoints' = endpoints \cup
               {EndpointRow(nextId, reqs[r].fullPath, reqs[r].parameters,
                            reqs[r].code, reqs[r].httpMethod, "javascript",
                            reqs[r].projectId, reqs[r].user)}
          /\ nextId' = nextId + 1
          /\ Inserted(r, "register", {"postEndpoint", "generateEndpoint"})
          /\ UNCHANGED dynamicRoutes
  /\ UNCHANGED <<projects, pages, legacyRoutes, initState, started>>

PostEndpointInsert(r) ==
  /\ reqs[r].op = "postEndpoint" /\ reqs[r].pc = "insert"
  /\ IF \E e \in endpoints : e.path = reqs[r].fullPath
     THEN /\ Finish(r, InsertConflictStatus,
                    ErrorBody("An error occurred while creating the endpoint"))
          /\ UNCHANGED <<endpoints, nextId>>
     ELSE /\ endpoints' = endpoints \cup
               {EndpointRow(nextId, reqs[r].fullPath, reqs[r].parameters,
                            reqs[r].code, reqs[r].httpMethod, "javascript",
                            reqs[r].projectId, reqs[r].user)}
          /\ nextId' = nextId + 1
          /\ Inserted(r, "register", {"postEndpoint", "generateEndpoint"})
  /\ UNCHANGED <<projects, pages, dynamicRoutes, legacyRoutes, initState, started>>

\* dynamicRouteManager.registerEndpoint(fullPath, parameters, code, method)
PostEndpointRegister(r) ==
  /\ reqs[r].op = "postEndpoint" /\ reqs[r].pc = "register"
  /\ dynamicRoutes' = Install(dynamicRoutes, reqs[r].fullPath,
        JsRouteInfo(reqs[r].fullPath, reqs[r].parameters, reqs[r].code,
                    reqs[r].httpMethod))
  /\ Finish(r, 201, [kind |-> "row", id |-> reqs[r].id])
  /\ UNCHANGED <<store, legacyRoutes, initState, started>>

\* ---------------------------------------- POST /api/endpoints/generate
\* what the language model returned: nothing usable, or an object whose
\* optional path and whose code are arbitrary text
\* httpMethod "" and parameters {} stand for a field the model's object lacks
AiEndpointResults ==
  {[ok |-> FALSE, path |-> Missing, code |-> "", httpMethod |-> "",
    parameters |-> {}],
   [ok |-> TRUE, path |-> <<"x">>, code |-> "nofn", httpMethod |-> "",
    parameters |-> {}],
   [ok |-> TRUE, path |-> Missing, code |-> "deref", httpMethod |-> "POST",
    parameters |-> {<<"q">>}],
   [ok |-> TRUE, path |-> Missing, code |-> "hang", httpMethod |-> "",
    parameters |-> {}],
   [ok |-> TRUE, path |-> Missing, code |-> "escape", httpMethod |-> "",
    parameters |-> {}]}

GenerateEndpointCheck(user, projectId, description) ==
  IF description = Missing THEN 400
  ELSE IF ProjectMissing(projectId) THEN 500
  ELSE IF projects[projectId].userId # user THEN 403
  ELSE 0

\* `/api/${projectName}/${endpointSlug}`
GenerateBasePath(name, description) ==
  APISLASH \o ProjectSlug(name) \o SLASH \o ReplaceSpaces(ToLowerCase(description))

\* generatedPath.replace(/^\//, '')
StripLeadingSlash(path) == IF StartsWith(path, SLASH) THEN Tail(path) ELSE path

\* the path the generate route stores: the model's path or the base path,
\* re-anchored under /api/<slug>/ unless it starts with /api/
GeneratedEndpointPath(name, description, ai) ==
  LET generatedPath == IF ai.ok /\ ai.path # Missing THEN ai.path
                       ELSE GenerateBasePath(name, description)
  IN  IF StartsWith(generatedPath, APISLASH) THEN generatedPath
      ELSE APISLASH \o ProjectSlug(name) \o SLASH \o StripLeadingSlash(generatedPath)

GenerateEndpointStart(r, user, projectId, description, ai, language) ==
  /\ Begin(r)
  /\ LET st == GenerateEndpointCheck(user, projectId, description)
         rec == Base("generateEndpoint", user, ProjectOwner(projectId)) @@
                [projectId |-> projectId, description |-> description,
                 language |-> language,
                 code |-> LET js == IF ai.ok THEN ai.code ELSE "fallback"
                          IN  IF language = "python" THEN PythonSource(js) ELSE js,
                 httpMethod |-> IF ai.ok /\ ai.httpMethod # ""
                                THEN ai.httpMethod ELSE "GET",
                 parameters |-> IF ai.ok /\ ai.parameters # {}
                                THEN CHOOSE ps \in ai.parameters : TRUE
                                ELSE <<"q">>,
                 fullPath |-> IF st = 0
                              THEN GeneratedEndpointPath(projects[projectId].name,
                                                         description, ai)
                              ELSE Missing,
                 id |-> 0]
     IN  IF st = 0 THEN Enter(r, rec, "insert")
         ELSE Answer(r, rec, st, ErrorBody("refused"))
  /\ UNCHANGED <<store, dynamicRoutes, legacyRoutes, initState>>

GenerateEndpointInsert(r) ==
  /\ reqs[r].op = "generateEndpoint" /\ reqs[r].pc = "insert"
  /\ IF \E e \in endpoints : e.path = reqs[r].fullPath
     THEN /\ Finish(r, 500, ErrorBody("An error occurred while generating the endpoint"))
          /\ UNCHANGED <<endpoints, nextId>>
     ELSE /\ endpoints' = endpoints \cup
               {EndpointRow(nextId, reqs[r].fullPath, reqs[r].parameters,
                            reqs[r].code, reqs[r].httpMethod, reqs[r].language,
                            reqs[r].projectId, reqs[r].user)}
          /\ nextId' = nextId + 1
          /\ Inserted(r, "register", {"postEndpoint", "generateEndpoint"})
  /\ UNCHANGED <<projects, pages, dynamicRoutes, legacyRoutes, initState, started>>

\* registerEndpoint: a JavaScript endpoint is installed at once; for a Python
\* endpoint the placeholder is installed and the interpreter awaited
GenerateEndpointRegister(r) ==
  /\ reqs[r].op = "generateEndpoint" /\ reqs[r].pc = "register"
  /\ IF reqs[r].language = "javascript"
     THEN /\ dynamicRoutes' = Install(dynamicRoutes, reqs[r].fullPath,
               JsRouteInfo(reqs[r].fullPath, reqs[r].parameters, reqs[r].code,
                           reqs[r].httpMethod))
          /\ Finish(r, 201, [kind |-> "row", id |-> reqs[r].id])
     ELSE /\ dynamicRoutes' = Install(dynamicRoutes, reqs[r].fullPath,
               PythonPlaceholderInfo(reqs[r].fullPath, reqs[r].parameters,
                                     reqs[r].httpMethod))
          /\ Goto(r, "python")
  /\ UNCHANGED <<store, legacyRoutes, initState, started>>

\* registerEndpoint (python) after Python.startup(), py.exec and py.eval
GenerateEndpointPython(r, outcome) ==
  /\ reqs[r].op = "generateEndpoint" /\ reqs[r].pc = "python"
  /\ dynamicRoutes' = Install(dynamicRoutes, reqs[r].fullPath,
        PythonRouteInfo(reqs[r].fullPath, reqs[r].parameters, reqs[r].code,
                        reqs[r].httpMethod, outcome))
  /\ Finish(r, 201, [kind |-> "row", id |-> reqs[r].id])
  /\ UNCHANGED <<store, legacyRoutes, initState, started>>


\* -------------------------------------------- /api/endpoints/{id} routes
\* ids a request may name: every id handed out so far and one that matches no row
KnownIds == 1..nextId

Undefined == ""        \* a field absent from a PUT body (code, httpMethod, html)

\* bodies of PUT /api/endpoints/{id}; path Missing: no path field
\* parameters {} and the other fields Missing or Undefined: not in the body
NoFields ==
  [path |-> Missing, code |-> Undefined, httpMethod |-> Undefined,
   parameters |-> {}, language |-> Undefined]

PutEndpointBodies ==
  {[NoFields EXCEPT !.code = "ok2"],
   NoFields,
   [NoFields EXCEPT !.language = "python"]}
  \cup {[NoFields EXCEPT !.path = p] : p \in PutPaths}
  \cup {[NoFields EXCEPT !.httpMethod = "PATCH"]}

\* GET /api/endpoints/{id}
GetEndpointCheck(user, id) ==
  LET endpoint == getEndpointById(id)
  IN  IF endpoint = NoRow THEN 404
      ELSE IF endpoint.userId # user THEN 403
      ELSE 200

GetEndpoint(r, user, id) ==
  /\ Begin(r)
  /\ LET st == GetEndpointCheck(user, id)
     IN  Answer(r, Base("getEndpoint", user, EndpointOwner(id)) @@ [id |-> id], st,
                IF st = 200 THEN [kind |-> "row", id |-> id] ELSE ErrorBody("refused"))
  /\ UNCHANGED <<store, dynamicRoutes, legacyRoutes, initState>>

\* PUT without the owner comparison of route.ts:187
PutEndpointCheckNoOwner(user, id, data) ==
  LET endpoint == getEndpointById(id)
  IN  IF endpoint = NoRow THEN 404
      ELSE IF data.path = Missing /\ data.code = Undefined
              /\ data.parameters = {} /\ data.httpMethod = Undefined THEN 400
      ELSE 0

\* PUT /api/endpoints/{id}: the checks before updateEndpoint; 0: passed
PutEndpointCheck(user, id, data) ==
  LET endpoint == getEndpointById(id)
  IN  IF endpoint = NoRow THEN 404
      ELSE IF endpoint.userId # user THEN 403
      ELSE IF data.path = Missing /\ data.code = Undefined
              /\ data.parameters = {} /\ data.httpMethod = Undefined THEN 400
      ELSE 0

PutEndpointStart(r, user, id, data) ==
  /\ Begin(r)
  /\ LET st == PutEndpointCheck(user, id, data)
         rec == Base("putEndpoint", user, EndpointOwner(id)) @@
                [id |-> id, data |-> data,
                 oldPath |-> IF st = 0 THEN getEndpointById(id).path ELSE Missing]
     IN  IF st = 0 THEN Enter(r, rec, "update")
         ELSE Answer(r, rec, st, ErrorBody("refused"))
  /\ UNCHANGED <<store, dynamicRoutes, legacyRoutes, initState>>

\* updateEndpoint: the rows matched by (id AND userId)
UpdateEndpointMatches(id, userId) ==
  {e \in endpoints : e.id = id /\ e.userId = userId}

\* updateEndpoint: the row after .set(updateData)
UpdatedEndpointRow(e, data) ==
  [e EXCEPT !.path = IF data.path # Missing THEN data.path ELSE @,
            !.code = IF data.code # Undefined THEN data.code ELSE @,
            !.parameters = IF data.parameters # {}
                           THEN JoinParams(CHOOSE ps \in data.parameters : TRUE)
                           ELSE @,
            !.httpMethod = IF data.httpMethod # Undefined THEN data.httpMethod ELSE @]

PutEndpointUpdate(r) ==
  /\ reqs[r].op = "putEndpoint" /\ reqs[r].pc = "update"
  /\ LET matches == UpdateEndpointMatches(reqs[r].id, reqs[r].user)
         data == reqs[r].data
     IN  IF matches = {}
         THEN /\ Finish(r, 500, ErrorBody("Failed to update endpoint"))
              /\ UNCHANGED endpoints
         ELSE IF data.path # Missing
                 /\ \E o \in endpoints \ matches : o.path = data.path
         THEN /\ Finish(r, 500, ErrorBody("An error occurred while updating the endpoint"))
              /\ UNCHANGED endpoints
         ELSE /\ endpoints' = (endpoints \ matches) \cup
                              {UpdatedEndpointRow(e, data) : e \in matches}
              /\ Goto(r, "refresh")
  /\ UNCHANGED <<projects, pages, nextId, dynamicRoutes, legacyRoutes, initState, started>>

\* EndpointManager.refreshEndpoint (lib/endpoint-manager.ts): the registry that
\* results in the legacy manager
LegacyRefreshEndpoint(routes, path) ==
  LET endpoint == getEndpointByPath(path)
  IN  IF endpoint # NoRow
      THEN Install(routes, endpoint.path,
                   LegacyRouteInfo(endpoint.path, SplitParams(endpoint.parameters),
                                   endpoint.code, endpoint.httpMethod))
      ELSE Remove(routes, path)

\* a refresh that drops the entry it finds and installs one where it finds none
refreshEndpointToggle(routes, path) ==
  LET endpoint == getEndpointByPath(path)
  IN  IF endpoint # NoRow /\ path \notin DOMAIN routes
      THEN Install(routes, endpoint.path,
                   JsRouteInfo(endpoint.path, SplitParams(endpoint.parameters),
                               endpoint.code, endpoint.httpMethod))
      ELSE Remove(routes, path)

\* DynamicRouteManager.refreshEndpoint: the registry that results
refreshEndpoint(routes, path) ==
  LET endpoint == getEndpointByPath(path)
  IN  IF endpoint # NoRow
      THEN Install(routes, endpoint.path,
                   JsRouteInfo(endpoint.path, SplitParams(endpoint.parameters),
                               endpoint.code, endpoint.httpMethod))
      ELSE Remove(routes, path)

\* the registries after `endpointManager.refreshEndpoint(endpoint.path)` of the
\* /api/endpoints/{id} routes, which import endpointManager from
\* '@/lib/endpoint-manager': <<dispatcher's registry, legacy registry>>
RouteRefresh(dyn, legacy, path) == <<dyn, LegacyRefreshEndpoint(legacy, path)>>

PutEndpointRefresh(r) ==
  /\ reqs[r].op = "putEndpoint" /\ reqs[r].pc = "refresh"
  /\ LET after == RouteRefresh(dynamicRoutes, legacyRoutes, reqs[r].oldPath)
     IN  /\ dynamicRoutes' = after[1]
         /\ legacyRoutes' = after[2]
  /\ Finish(r, 200, [kind |-> "message", message |-> "Endpoint updated successfully"])
  /\ UNCHANGED <<store, initState, started>>

\* DELETE /api/endpoints/{id}
\* the row is written, and getEndpointByPath, the Store read refreshEndpoint
\* starts with, throws: the error goes through the await into the route's catch
PutEndpointRefreshFail(r) ==
  /\ reqs[r].op = "putEndpoint" /\ reqs[r].pc = "refresh"
  /\ Finish(r, 500, ErrorBody("An error occurred while updating the endpoint"))
  /\ UNCHANGED <<store, dynamicRoutes, legacyRoutes, initState, started>>

DeleteEndpointCheck(user, id) ==
  LET endpoint == getEndpointById(id)
  IN  IF endpoint = NoRow THEN 404
      ELSE IF endpoint.userId # user THEN 403
      ELSE 0

DeleteEndpointStart(r, user, id) ==
  /\ Begin(r)
  /\ LET st == DeleteEndpointCheck(user, id)
         rec == Base("deleteEndpoint", user, EndpointOwner(id)) @@
                [id |-> id,
                 oldPath |-> IF st = 0 THEN getEndpointById(id).path ELSE Missing]
     IN  IF st = 0 THEN Enter(r, rec, "delete")
         ELSE Answer(r, rec, st, ErrorBody("refused"))
  /\ UNCHANGED <<store, dynamicRoutes, legacyRoutes, initState>>

\* deleteEndpoint: the rows matched by (id AND userId)
DeleteEndpointMatches(id, userId) ==
  {e \in endpoints : e.id = id /\ e.userId = userId}

DeleteEndpointDelete(r) ==
  /\ reqs[r].op = "deleteEndpoint" /\ reqs[r].pc = "delete"
  /\ LET matches == DeleteEndpointMatches(reqs[r].id, reqs[r].user)
     IN  IF matches = {}
         THEN /\ Finish(r, 500, ErrorBody("Failed to delete endpoint"))
              /\ UNCHANGED endpoints
         ELSE /\ endpoints' = endpoints \ matches
              /\ Goto(r, "refresh")
  /\ UNCHANGED <<projects, pages, nextId, dynamicRoutes, legacyRoutes, initState, started>>

DeleteEndpointRefresh(r) ==
  /\ reqs[r].op = "deleteEndpoint" /\ reqs[r].pc = "refresh"
  /\ LET after == RouteRefresh(dynamicRoutes, legacyRoutes, reqs[r].oldPath)
     IN  /\ dynamicRoutes' = after[1]
         /\ legacyRoutes' = after[2]
  /\ Finish(r, 200, [kind |-> "message", message |-> "Endpoint deleted successfully"])
  /\ UNCHANGED <<store, initState, started>>


\* ----------------------------------------------------- POST /api/pages
PostPageCheck(user, projectId, path, htmlContent) ==
  IF path = Missing \/ htmlContent = "" THEN 400
  ELSE IF ProjectMissing(projectId) THEN 500
  ELSE IF projects[projectId].userId # user THEN 403
  ELSE 0

PageRow(id, path, htmlContent, projectId, userId) ==
  [id |-> id, path |-> path, htmlContent |-> htmlContent,
   projectId |-> projectId, userId |-> userId]

PostPageStart(r, user, projectId, path, htmlContent) ==
  /\ Begin(r)
  /\ LET st == PostPageCheck(user, projectId, path, htmlContent)
         rec == Base("postPage", user, ProjectOwner(projectId)) @@
                [projectId |-> projectId, userPath |-> path,
                 htmlContent |-> htmlContent,
                 slug |-> IF st = 0 THEN ProjectSlug(projects[projectId].name)
                          ELSE Missing,
                 fullPath |-> IF st = 0
                              THEN PageFullPath(projects[projectId].name, path)
                              ELSE Missing,
                 id |-> 0]
     IN  IF st = 0 THEN Enter(r, rec, "insert")
         ELSE Answer(r, rec, st, ErrorBody("refused"))
  /\ UNCHANGED <<store, dynamicRoutes, legacyRoutes, initState>>

\* createPage: db.insert under the unique index on Page.path
PostPageInsert(r) ==
  /\ reqs[r].op = "postPage" /\ reqs[r].pc = "insert"
  /\ IF \E p \in pages : p.path = reqs[r].fullPath
     THEN /\ Finish(r, 500, ErrorBody("An error occurred while creating the page"))
          /\ UNCHANGED <<pages, nextId>>
     ELSE /\ pages' = pages \cup
               {PageRow(nextId, reqs[r].fullPath, reqs[r].htmlContent,
                        reqs[r].projectId, reqs[r].user)}
          /\ nextId' = nextId + 1
          /\ Inserted(r, "register", {"postPage", "generatePage"})
  /\ UNCHANGED <<projects, endpoints, dynamicRoutes, legacyRoutes, initState, started>>

\* dynamicRouteManager.registerPage(fullPath, htmlContent)
PostPageRegister(r) ==
  /\ reqs[r].op = "postPage" /\ reqs[r].pc = "register"
  /\ dynamicRoutes' = Install(dynamicRoutes, reqs[r].fullPath,
                              PageRouteInfo(reqs[r].fullPath, reqs[r].htmlContent))
  /\ Finish(r, 201, [kind |-> "row", id |-> reqs[r].id])
  /\ UNCHANGED <<store, legacyRoutes, initState, started>>

\* -------------------------------------------- POST /api/pages/generate
AiPageResults ==
  {[ok |-> FALSE, path |-> Missing, htmlContent |-> ""],
   [ok |-> TRUE, path |-> <<"/", "a", "p", "i", "/", "s", "/", "p">>,
    htmlContent |-> "h1"]}

GeneratePageCheck(user, projectId, description) ==
  IF description = Missing THEN 400
  ELSE IF ProjectMissing(projectId) THEN 500
  ELSE IF projects[projectId].userId # user THEN 403
  ELSE 0

\* index of the first '/' of s, 0 when there is none
FirstSlash(s) ==
  IF \E i \in 1..Len(s) : s[i] = "/"
  THEN CHOOSE i \in 1..Len(s) : s[i] = "/" /\ \A j \in 1..(i - 1) : s[j] # "/"
  ELSE 0

\* generatedPath.replace(/^\/api\/[^\/]+\//, '')
StripApiSegment(path) ==
  IF ~StartsWith(path, APISLASH) THEN path
  ELSE LET rest == Slice(path, Len(APISLASH) + 1)
           i == FirstSlash(rest)
       IN  IF i > 1 THEN Slice(rest, i + 1) ELSE path

\* the path the page generate route stores
GeneratedPagePath(name, description, ai) ==
  LET pagePath == SLASH \o ProjectSlug(name) \o SLASH
                    \o ReplaceSpaces(ToLowerCase(description))
      generatedPath == IF ai.ok /\ ai.path # Missing THEN ai.path ELSE pagePath
  IN  IF StartsWith(generatedPath, APISLASH)
      THEN SLASH \o ProjectSlug(name) \o SLASH \o StripApiSegment(generatedPath)
      ELSE generatedPath

GeneratePageStart(r, user, projectId, description, ai) ==
  /\ Begin(r)
  /\ LET st == GeneratePageCheck(user, projectId, description)
         rec == Base("generatePage", user, ProjectOwner(projectId)) @@
                [projectId |-> projectId, description |-> description,
                 htmlContent |-> IF ai.ok THEN ai.htmlContent ELSE "fallback",
                 fullPath |-> IF st = 0
                              THEN GeneratedPagePath(projects[projectId].name,
                                                     description, ai)
                              ELSE Missing,
                 id |-> 0]
     IN  IF st = 0 THEN Enter(r, rec, "insert")
         ELSE Answer(r, rec, st, ErrorBody("refused"))
  /\ UNCHANGED <<store, dynamicRoutes, legacyRoutes, initState>>

\* createPage
GeneratePageInsert(r) ==
  /\ reqs[r].op = "generatePage" /\ reqs[r].pc = "insert"
  /\ IF \E p \in pages : p.path = reqs[r].fullPath
     THEN /\ Finish(r, 500, ErrorBody("An error occurred while generating the page"))
          /\ UNCHANGED <<pages, nextId>>
     ELSE /\ pages' = pages \cup
               {PageRow(nextId, reqs[r].fullPath, reqs[r].htmlContent,
                        reqs[r].projectId, reqs[r].user)}
          /\ nextId' = nextId + 1
          /\ Inserted(r, "respond", {"postPage", "generatePage"})
  /\ UNCHANGED <<projects, endpoints, dynamicRoutes, legacyRoutes, initState, started>>

\* the 201 answer: the route never calls the registry
GeneratePageRespond(r) ==
  /\ reqs[r].op = "generatePage" /\ reqs[r].pc = "respond"
  /\ Finish(r, 201, [kind |-> "row", id |-> reqs[r].id])
  /\ UNCHANGED <<store, dynamicRoutes, legacyRoutes, initState, started>>

\* ------------------------------------------------ /api/pages/{id} routes
PutPageBodies ==
  {[path |-> Missing, htmlContent |-> "h2"],
   [path |-> <<"/", "s", "/", "n">>, htmlContent |-> Undefined],
   [path |-> <<"/", "a", "p", "i", "/", "s", "/", "n">>, htmlContent |-> Undefined],
   [path |-> Missing, htmlContent |-> Undefined]}

GetPageCheck(user, id) ==
  LET page == getPageById(id)
  IN  IF page = NoRow THEN 404
      ELSE IF page.userId # user THEN 403
      ELSE 200

GetPage(r, user, id) ==
  /\ Begin(r)
  /\ LET st == GetPageCheck(user, id)
     IN  Answer(r, Base("getPage", user, PageOwner(id)) @@ [id |-> id], st,
                IF st = 200 THEN [kind |-> "row", id |-> id] ELSE ErrorBody("refused"))
  /\ UNCHANGED <<store, dynamicRoutes, legacyRoutes, initState>>

PutPageCheck(user, id, data) ==
  LET page == getPageById(id)
  IN  IF page = NoRow THEN 404
      ELSE IF page.userId # user THEN 403
      ELSE IF data.path = Missing /\ data.htmlContent = Undefined THEN 400
      ELSE 0

PutPageStart(r, user, id, data) ==
  /\ Begin(r)
  /\ LET st == PutPageCheck(user, id, data)
         rec == Base("putPage", user, PageOwner(id)) @@
                [id |-> id, data |-> data,
                 oldPath |-> IF st = 0 THEN getPageById(id).path ELSE Missing]
     IN  IF st = 0 THEN Enter(r, rec, "update")
         ELSE Answer(r, rec, st, ErrorBody("refused"))
  /\ UNCHANGED <<store, dynamicRoutes, legacyRoutes, initState>>

\* updatePage: the rows matched by (id AND userId)
UpdatePageMatches(id, userId) == {p \in pages : p.id = id /\ p.userId = userId}

UpdatedPageRow(p, data) ==
  [p EXCEPT !.path = IF data.path # Missing THEN data.path ELSE @,
            !.htmlContent = IF data.htmlContent # Undefined THEN data.htmlContent ELSE @]

PutPageUpdate(r) ==
  /\ reqs[r].op = "putPage" /\ reqs[r].pc = "update"
  /\ LET matches == UpdatePageMatches(reqs[r].id, reqs[r].user)
         data == reqs[r].data
     IN  IF matches = {}
         THEN /\ Finish(r, 500, ErrorBody("Failed to update page"))
              /\ UNCHANGED pages
         ELSE IF data.path # Missing /\ \E o \in pages \ matches : o.path = data.path
         THEN /\ Finish(r, 500, ErrorBody("An error occurred while updating the page"))
              /\ UNCHANGED pages
         ELSE /\ pages' = (pages \ matches) \cup {UpdatedPageRow(p, data) : p \in matches}
              /\ Goto(r, "sync")
  /\ UNCHANGED <<projects, endpoints, nextId, dynamicRoutes, legacyRoutes, initState, started>>

\* PUT /api/pages/{id} after updatePage: re-register when the html was given,
\* move the key when the path changed
PutPageSyncRoutes(routes, id, data, oldPath) ==
  LET updatedPage == getPageById(id)
      r1 == IF data.htmlContent # Undefined /\ updatedPage # NoRow
            THEN Install(routes, updatedPage.path,
                         PageRouteInfo(updatedPage.path, updatedPage.htmlContent))
            ELSE routes
  IN  IF data.path # Missing /\ oldPath # data.path
      THEN LET r2 == Remove(r1, oldPath)
           IN  IF updatedPage # NoRow
               THEN Install(r2, updatedPage.path,
                            PageRouteInfo(updatedPage.path, updatedPage.htmlContent))
               ELSE r2
      ELSE r1

PutPageSync(r) ==
  /\ reqs[r].op = "putPage" /\ reqs[r].pc = "sync"
  /\ dynamicRoutes' = PutPageSyncRoutes(dynamicRoutes, reqs[r].id, reqs[r].data,
                                        reqs[r].oldPath)
  /\ Finish(r, 200, [kind |-> "message", message |-> "Page updated successfully"])
  /\ UNCHANGED <<store, legacyRoutes, initState, started>>

DeletePageCheck(user, id) ==
  LET page == getPageById(id)
  IN  IF page = NoRow THEN 404
      ELSE IF page.userId # user THEN 403
      ELSE 0

DeletePageStart(r, user, id) ==
  /\ Begin(r)
  /\ LET st == DeletePageCheck(user, id)
         rec == Base("deletePage", user, PageOwner(id)) @@
                [id |-> id,
                 oldPath |-> IF st = 0 THEN getPageById(id).path ELSE Missing]
     IN  IF st = 0 THEN Enter(r, rec, "delete")
         ELSE Answer(r, rec, st, ErrorBody("refused"))
  /\ UNCHANGED <<store, dynamicRoutes, legacyRoutes, initState>>

\* deletePage: the rows matched by (id AND userId)
DeletePageMatches(id, userId) == {p \in pages : p.id = id /\ p.userId = userId}

DeletePageDelete(r) ==
  /\ reqs[r].op = "deletePage" /\ reqs[r].pc = "delete"
  /\ LET matches == DeletePageMatches(reqs[r].id, reqs[r].user)
     IN  IF matches = {}
         THEN /\ Finish(r, 500, ErrorBody("Failed to delete page"))
              /\ UNCHANGED pages
         ELSE /\ pages' = pages \ matches
              /\ Goto(r, "unregister")
  /\ UNCHANGED <<projects, endpoints, nextId, dynamicRoutes, legacyRoutes, initState, started>>

\* delete dynamicRouteManager.dynamicRoutes[pageToDelete.path]
DeletePageUnregister(r) ==
  /\ reqs[r].op = "deletePage" /\ reqs[r].pc = "unregister"
  /\ dynamicRoutes' = Remove(dynamicRoutes, reqs[r].oldPath)
  /\ Finish(r, 200, [kind |-> "message", message |-> "Page deleted successfully"])
  /\ UNCHANGED <<store, legacyRoutes, initState, started>>


\* ------------------------------------------------- project tools (chat)
RenameNames == {<<"s">>}

ToolResult(status, message) == [kind |-> "tool", status |-> status, message |-> message]

\* updateProject / deleteProject tools: the checks before the Store write;
\* "ok": passed.  getProjectById throws on a missing row and the tool's catch
\* block reports the TypeError
ProjectToolCheck(user, id) ==
  IF ProjectMissing(id) THEN "TypeError"
  ELSE IF projects[id].userId # user THEN "Unauthorized"
  ELSE "ok"

UpdateProjectStart(r, user, id, name) ==
  /\ Begin(r)
  /\ LET st == ProjectToolCheck(user, id)
         rec == Base("updateProject", user, ProjectOwner(id)) @@ [projectId |-> id, name |-> name]
     IN  IF st = "ok" THEN Enter(r, rec, "update")
         ELSE Answer(r, rec, 0, ToolResult("error", st))
  /\ UNCHANGED <<store, dynamicRoutes, legacyRoutes, initState>>

\* queries.updateProject: .where(and(eq(project.id, id), eq(project.userId, userId)))
UpdateProjectMatches(id, userId) ==
  projects[id] # NoProject /\ projects[id].userId = userId

UpdateProjectWrite(r) ==
  /\ reqs[r].op = "updateProject" /\ reqs[r].pc = "update"
  /\ IF UpdateProjectMatches(reqs[r].projectId, reqs[r].user)
     THEN /\ projects' = [projects EXCEPT ![reqs[r].projectId].name = reqs[r].name]
          /\ Finish(r, 0, ToolResult("success", "Project updated successfully"))
     ELSE /\ UNCHANGED projects
          /\ Finish(r, 0, ToolResult("error", "Failed to update project"))
  /\ UNCHANGED <<endpoints, pages, nextId, dynamicRoutes, legacyRoutes, initState, started>>

DeleteProjectStart(r, user, id) ==
  /\ Begin(r)
  /\ LET st == ProjectToolCheck(user, id)
         rec == Base("deleteProject", user, ProjectOwner(id)) @@ [projectId |-> id]
     IN  IF st = "ok" THEN Enter(r, rec, "delete")
         ELSE Answer(r, rec, 0, ToolResult("error", st))
  /\ UNCHANGED <<store, dynamicRoutes, legacyRoutes, initState>>

\* queries.deleteProject: .where(and(eq(project.id, id), eq(project.userId, userId)))
DeleteProjectMatches(id, userId) ==
  projects[id] # NoProject /\ projects[id].userId = userId

\* the delete takes the project's endpoints and pages with it
DeleteProjectWriteCascading(r) ==
  /\ reqs[r].op = "deleteProject" /\ reqs[r].pc = "delete"
  /\ IF projects[reqs[r].projectId] # NoProject
        /\ projects[reqs[r].projectId].userId = reqs[r].user
     THEN /\ projects' = [projects EXCEPT ![reqs[r].projectId] = NoProject]
          /\ endpoints' = {e \in endpoints : e.projectId # reqs[r].projectId}
          /\ pages' = {p \in pages : p.projectId # reqs[r].projectId}
          /\ Finish(r, 0, ToolResult("success", "Project deleted successfully"))
     ELSE /\ UNCHANGED <<projects, endpoints, pages>>
          /\ Finish(r, 0, ToolResult("error", "Failed to delete project"))
  /\ UNCHANGED <<nextId, dynamicRoutes, legacyRoutes, initState, started>>

DeleteProjectWrite(r) ==
  /\ reqs[r].op = "deleteProject" /\ reqs[r].pc = "delete"
  /\ IF DeleteProjectMatches(reqs[r].projectId, reqs[r].user)
     THEN /\ projects' = [projects EXCEPT ![reqs[r].projectId] = NoProject]
          /\ Finish(r, 0, ToolResult("success", "Project deleted successfully"))
     ELSE /\ UNCHANGED projects
          /\ Finish(r, 0, ToolResult("error", "Failed to delete project"))
  /\ UNCHANGED <<endpoints, pages, nextId, dynamicRoutes, legacyRoutes, initState, started>>

\* ------------------------------------------- dispatch: /api/[...path]
\* catch-all paths requested: '/' + params.path.join('/')
RequestPaths ==
  {<<"/", "s", "/", "a">>, <<"/", "s", "/", "d">>}

\* ensureInitialized that does not look at initializationPromise
EnsureBranchNoPromise(initialized, promise) ==
  IF initialized THEN "return" ELSE "start"

\* ensureInitialized: which branch a call takes
EnsureBranch(initialized, promise) ==
  IF initialized THEN "return"
  ELSE IF promise # "null" THEN "await"
  ELSE "start"

\* await Promise.resolve(route.function(params)): the handler compiled from
\* code "hang" returns a promise that never settles
NeverSettles(fn) == fn.kind = "compiled" /\ fn.code = "hang"

\* handleRequest while the awaited handler has not settled: no response
NoResponse == [status |-> 0, body |-> [kind |-> "none"]]

\* a dispatcher that answers a handler's exception as a result
ExecutionErrorAsResult(message) ==
  [status |-> 200,
   body |-> [kind |-> "error", error |-> "Error executing endpoint",
             details |-> message]]

\* handleRequest: the catch around the call of the handler
ExecutionError(message) ==
  [status |-> 500,
   body |-> [kind |-> "error", error |-> "Error executing endpoint",
             details |-> message]]

\* the answer of handleRequest once the registry key is known, with what the
\* handler was called with (invoked, params)
\* the route is taken whatever the request's method
RouteMatchesAnyMethod(routes, key, method) ==
  /\ key \in DOMAIN routes
  /\ routes[key].type = "endpoint"

\* this.dynamicRoutes[sanitizedPath] is an endpoint of the request's method
RouteMatches(routes, key, method) ==
  /\ key \in DOMAIN routes
  /\ routes[key].type = "endpoint"
  /\ method = routes[key].httpMethod

Serve(routes, key, method, query, json) ==
  IF RouteMatches(routes, key, method)
  THEN IF method = "POST" /\ ~json.ok
       THEN [status |-> 400, body |-> ErrorBody("Invalid JSON body"),
             invoked |-> FALSE, params |-> EmptyObject]
       ELSE LET params == IF method = "GET"
                          THEN GetParams(routes[key].parameters, query)
                          ELSE PostParams(json)
                out == RunOutcome(routes[key].function, params)
            IN  IF NeverSettles(routes[key].function)
                THEN NoResponse @@ [invoked |-> TRUE, params |-> params]
                ELSE IF out.threw
                THEN ExecutionError(out.message) @@
                     [invoked |-> TRUE, params |-> params]
                ELSE [status |-> 200, body |-> out.result,
                      invoked |-> TRUE, params |-> params]
  ELSE IF getPageByPath(key) # NoRow
       THEN [status |-> 200,
             body |-> [kind |-> "html", htmlContent |-> getPageByPath(key).htmlContent],
             invoked |-> FALSE, params |-> EmptyObject]
       ELSE [status |-> 404, body |-> ErrorBody("Not found"),
             invoked |-> FALSE, params |-> EmptyObject]

\* the answer to a request without a query string, whose body parses or not
HandleLookup(routes, key, method, bodyOk) ==
  LET resp == Serve(routes, key, method, <<>>,
                    IF bodyOk THEN [ok |-> TRUE, value |-> EmptyObject]
                    ELSE InvalidJson)
  IN  [status |-> resp.status, body |-> resp.body]

\* handleRequest after ensureInitialized, for the catch-all path
handleRequest(path, method, bodyOk) ==
  HandleLookup(dynamicRoutes, CanonicalKey(path), method, bodyOk)

\* the request arrives and handleRequest calls ensureInitialized
DispatchStart(r, path, method, query, json) ==
  /\ Begin(r)
  /\ LET branch == EnsureBranch(isInitialized, initializationPromise)
         rec == Base("dispatch", "anonymous", "nobody") @@
                [path |-> path, method |-> method, query |-> query, json |-> json,
                 invoked |-> FALSE, params |-> EmptyObject,
                 branch |-> branch, sawPromise |-> initializationPromise]
     IN  /\ branch = "start" => scansStarted < MaxScans
         /\ Enter(r, rec, IF branch = "return" THEN "lookup" ELSE "awaitInit")
         /\ IF branch = "start"
            THEN /\ initializationPromise' = "pending"
                 /\ load' = "getAllEndpoints"
                 /\ scansStarted' = scansStarted + 1
            ELSE UNCHANGED <<initializationPromise, load, scansStarted>>
  /\ UNCHANGED <<store, dynamicRoutes, legacyRoutes, isInitialized>>

\* the awaited initialization promise settles; a rejection leaves
\* handleRequest and the route handler by exception (500 from the framework)
DispatchAwait(r) ==
  /\ reqs[r].op = "dispatch" /\ reqs[r].pc = "awaitInit"
  /\ initializationPromise \in {"fulfilled", "rejected"}
  /\ IF initializationPromise = "fulfilled"
     THEN Goto(r, "lookup")
     ELSE Finish(r, 500, ErrorBody("Internal Server Error"))
  /\ UNCHANGED <<store, dynamicRoutes, legacyRoutes, initState, started>>

\* lookup, invocation and answer; the handler of a dispatch that gets no
\* response stays suspended at the await of its handler
\* the names registerEndpoint puts in the vm context of JavaScript guest code
GuestContext == {"endpoint_function", "console"}

\* the Endpoint rows after the handler ran. The context holds the host's own
\* console object, so console.log.constructor is the host's Function: the
\* source "escape" obtains the host process through it and deletes the
\* Endpoint rows of the Store
GuestWrites(fn, rows) ==
  IF fn.kind = "compiled" /\ fn.code = "escape" /\ "console" \in GuestContext
  THEN {}
  ELSE rows

DispatchServe(r) ==
  /\ reqs[r].op = "dispatch" /\ reqs[r].pc = "lookup"
  /\ LET resp == Serve(dynamicRoutes, CanonicalKey(reqs[r].path), reqs[r].method,
                       reqs[r].query, reqs[r].json)
         rec == [reqs[r] EXCEPT !.invoked = resp.invoked, !.params = resp.params]
     IN  /\ IF resp = NoResponse @@ [invoked |-> TRUE, params |-> resp.params]
            THEN /\ reqs' = [reqs EXCEPT ![r] = [rec EXCEPT !.pc = "running"]]
                 /\ last' = last
            ELSE /\ reqs' = [reqs EXCEPT ![r] = Idle]
                 /\ last' = Answered(rec, resp.status, resp.body)
         /\ endpoints' =
              IF resp.invoked
              THEN GuestWrites(dynamicRoutes[CanonicalKey(reqs[r].path)].function,
                               endpoints)
              ELSE endpoints
  /\ UNCHANGED <<projects, pages, nextId, dynamicRoutes, legacyRoutes, initState,
                 started>>

\* ------------------------- pages in the browser: /[...path], /api/pages/render
\* pathnames a browser visits
PagePathnames == {<<"/", "s", "/", "a">>}

\* GET /api/pages/render?path=...
RenderResponse(path) ==
  IF path = Missing
  THEN [status |-> 400, body |-> ErrorBody("Path parameter is required")]
  ELSE LET page == getPageByPath(LeadingSlash(path))
       IN  IF page = NoRow
           THEN [status |-> 404, body |-> ErrorBody("Page not found")]
           ELSE [status |-> 200,
                 body |-> [kind |-> "html", htmlContent |-> page.htmlContent]]

RenderPage(r, path) ==
  /\ Begin(r)
  /\ LET resp == RenderResponse(path)
     IN  Answer(r, Base("renderPage", "anonymous", "nobody") @@ [path |-> path],
                resp.status, resp.body)
  /\ UNCHANGED <<store, dynamicRoutes, legacyRoutes, initState>>

\* DynamicPage of app/[...path]/page.tsx, a client component: the document the
\* server answers a GET of pathname with is the component in its initial state
\* (loading = true); the effect that fetches the content runs in the browser
DynamicPageDocument(pathname) ==
  [status |-> 200, body |-> [kind |-> "document", text |-> "Loading..."]]

\* what the effect of DynamicPage leaves in the component's state
DynamicPageEffect(pathname) ==
  IF StartsWith(pathname, APISLASH)
  THEN [error |-> "Invalid path"]
  ELSE LET resp == RenderResponse(pathname)
       IN  IF resp.status = 200 THEN [pageContent |-> resp.body.htmlContent]
           ELSE IF resp.status = 404 THEN [error |-> "Page not found"]
           ELSE [error |-> resp.body.error]

\* GET of a pathname outside /api/, answered by the page component
DynamicPage(r, pathname) ==
  /\ Begin(r)
  /\ LET resp == DynamicPageDocument(pathname)
     IN  Answer(r, Base("visitPage", "anonymous", "nobody") @@ [path |-> pathname],
                resp.status, resp.body)
  /\ UNCHANGED <<store, dynamicRoutes, legacyRoutes, initState>>

\* ------------------------------------------------------------------- Next
Next ==
  \/ LoadEndpoints
  \/ LoadPages
  \/ LoadFail
  \/ \E r \in Slots, u \in Users, pr \in ProjIds :
       \/ \E path \in UserPaths \cup {Missing}, code \in {"ok1", "garbage"},
             m \in CreateMethods :
            PostEndpointStart(r, u, pr, path, code, m)
       \/ \E d \in Descriptions \cup {Missing}, ai \in AiEndpointResults,
             language \in Languages :
            GenerateEndpointStart(r, u, pr, d, ai, language)
       \/ \E path \in PageUserPaths \cup {Missing} :
            PostPageStart(r, u, pr, path, "h1")
       \/ \E d \in Descriptions \cup {Missing}, ai \in AiPageResults :
            GeneratePageStart(r, u, pr, d, ai)
       \/ \E n \in RenameNames : UpdateProjectStart(r, u, pr, n)
       \/ DeleteProjectStart(r, u, pr)
  \/ \E r \in Slots, u \in Users, id \in KnownIds :
       \/ GetEndpoint(r, u, id)
       \/ \E data \in PutEndpointBodies : PutEndpointStart(r, u, id, data)
       \/ DeleteEndpointStart(r, u, id)
       \/ GetPage(r, u, id)
       \/ \E data \in PutPageBodies : PutPageStart(r, u, id, data)
       \/ DeletePageStart(r, u, id)
  \/ \E r \in Slots, path \in RequestPaths :
       \/ \E query \in Queries : DispatchStart(r, path, "GET", query, InvalidJson)
       \/ \E json \in JsonBodies : DispatchStart(r, path, "POST", <<>>, json)
  \/ \E r \in Slots, path \in PagePathnames :
       \/ RenderPage(r, path)
       \/ DynamicPage(r, path)
  \/ \E r \in Slots :
       \/ PostEndpointInsert(r)
       \/ PostEndpointRegister(r)
       \/ GenerateEndpointInsert(r)
       \/ GenerateEndpointRegister(r)
       \/ \E outcome \in PythonOutcomes : GenerateEndpointPython(r, outcome)
       \/ PutEndpointUpdate(r)
       \/ PutEndpointRefresh(r)
       \/ PutEndpointRefreshFail(r)
       \/ DeleteEndpointDelete(r)
       \/ DeleteEndpointRefresh(r)
       \/ PostPageInsert(r)
       \/ PostPageRegister(r)
       \/ GeneratePageInsert(r)
       \/ GeneratePageRespond(r)
       \/ PutPageUpdate(r)
       \/ PutPageSync(r)
       \/ DeletePageDelete(r)
       \/ DeletePageUnregister(r)
       \/ UpdateProjectWrite(r)
       \/ DeleteProjectWrite(r)
       \/ DispatchAwait(r)
       \/ DispatchServe(r)

Spec == Init /\ [][Next]_vars

\* ---------------------------------------- the dispatcher and its endpoints
\* the requests of clients that only generate endpoints and call them
DispatchArrive ==
  \/ \E r \in Slots, u \in Users, pr \in ProjIds :
       \E d \in Descriptions \cup {Missing}, ai \in AiEndpointResults,
          language \in Languages :
         GenerateEndpointStart(r, u, pr, d, ai, language)
  \/ \E r \in Slots, path \in RequestPaths :
       \/ \E query \in Queries : DispatchStart(r, path, "GET", query, InvalidJson)
       \/ \E json \in JsonBodies : DispatchStart(r, path, "POST", <<>>, json)

\* the steps the event loop runs on its own: the scan's and the continuations
\* of these handlers
DispatchContinue ==
  \/ LoadEndpoints
  \/ LoadPages
  \/ LoadFail
  \/ \E r \in Slots :
       \/ GenerateEndpointInsert(r)
       \/ GenerateEndpointRegister(r)
       \/ \E outcome \in PythonOutcomes : GenerateEndpointPython(r, outcome)
       \/ DispatchAwait(r)
       \/ DispatchServe(r)

DispatchNext == DispatchArrive \/ DispatchContinue

\* the event loop runs a continuation that is ready
DispatchSpec == Init /\ [][DispatchNext]_vars /\ WF_vars(DispatchContinue)

\* ------------------------------ DynamicRouteManager.refreshEndpoint, called
\* paths the create routes compose, and sources stored for them
RefreshPaths == {<<"/", "a", "p", "i", "/", "s", "/", "d">>,
                 <<"/", "s", "/", "a", "p", "i", "/", "a">>}
RefreshCodes == {"fallback", "garbage", "py_fallback"}

RefreshRow(path, code) ==
  EndpointRow(IF StartsWith(path, APISLASH) THEN 1 ELSE 2, path, <<"q">>, code, "GET",
              IF code \in PythonSources THEN "python" ELSE "javascript",
              "pr1", "u1")

\* Endpoint tables: at most one row for a path
RefreshStores ==
  {rows \in SUBSET {RefreshRow(p, c) : p \in RefreshPaths, c \in RefreshCodes} :
     \A x, y \in rows : x.path = y.path => x = y}

\* what the registry may hold at a path: an endpoint compiled from some source
\* (the row's or an older one), a Python endpoint, or a page
RefreshInfos(path) ==
  {JsRouteInfo(path, <<"q">>, c, "GET") : c \in RefreshCodes}
  \cup {PythonRouteInfo(path, <<"q">>, "py_fallback", "GET", "Function"),
        PageRouteInfo(path, "h1")}

RefreshRegistries ==
  {routes \in UNION {[D -> UNION {RefreshInfos(p) : p \in RefreshPaths}] :
                       D \in SUBSET RefreshPaths} :
     \A p \in DOMAIN routes : routes[p].path = p}

\* the application after its scan, with some Endpoint table and some registry
RefreshInit ==
  /\ projects = [id \in ProjIds |->
        IF id = "pr1" THEN [id |-> "pr1", name |-> <<"S">>, userId |-> "u1"]
        ELSE [id |-> "pr2", name |-> <<"s">>, userId |-> "u2"]]
  /\ endpoints \in RefreshStores
  /\ pages = {}
  /\ nextId = 3
  /\ dynamicRoutes \in RefreshRegistries
  /\ legacyRoutes = EmptyRoutes
  /\ isInitialized = TRUE
  /\ initializationPromise = "fulfilled"
  /\ load = "done"
  /\ scansStarted = 1
  /\ reqs = [r \in Slots |-> Idle]
  /\ last = Idle
  /\ started = 0

\* the RouteInfo carries pythonInstance, the function object of the interpreter
HoldsHandle(info) == info.type = "endpoint" /\ info.function.kind = "python"

\* await dynamicRouteManager.refreshEndpoint(path); again: the call before
\* this one was a refresh of the same path; released: the entry at the path
\* carried pythonInstance and the call destroyed it
RefreshEndpointCall(path) ==
  /\ dynamicRoutes' = refreshEndpoint(dynamicRoutes, path)
  /\ last' = [op |-> "refreshEndpoint", pc |-> "idle", path |-> path,
              again |-> IF last.op = "refreshEndpoint" THEN last.path = path
                        ELSE FALSE,
              released |-> IF path \in DOMAIN dynamicRoutes
                           THEN HoldsHandle(dynamicRoutes[path])
                           ELSE FALSE]
  /\ UNCHANGED <<store, legacyRoutes, initState, reqs, started>>

\* handleRequest calls the Python handler of the path: await pyFunc(params) is
\* a round trip to the interpreter, during which other requests are served
RefreshInvoke(r, path) ==
  /\ reqs[r] = Idle
  /\ path \in DOMAIN dynamicRoutes
  /\ HoldsHandle(dynamicRoutes[path])
  /\ reqs' = [reqs EXCEPT ![r] = [op |-> "dispatch", pc |-> "running",
                                  path |-> path]]
  /\ UNCHANGED <<store, dynamicRoutes, legacyRoutes, initState, last, started>>

\* the interpreter answered (or failed) and the handler returned
RefreshReturn(r) ==
  /\ reqs[r].op = "dispatch" /\ reqs[r].pc = "running"
  /\ reqs' = [reqs EXCEPT ![r] = Idle]
  /\ UNCHANGED <<store, dynamicRoutes, legacyRoutes, initState, last, started>>

\* updateEndpoint with new code, or deleteEndpoint, on a row of the table
RefreshStoreWrite ==
  /\ \E e \in endpoints :
       \/ \E c \in RefreshCodes \ {e.code} :
            endpoints' = (endpoints \ {e}) \cup {[e EXCEPT !.code = c]}
       \/ endpoints' = endpoints \ {e}
  /\ last' = [op |-> "storeWrite", pc |-> "idle"]
  /\ UNCHANGED <<projects, pages, nextId, dynamicRoutes, legacyRoutes, initState,
                 reqs, started>>

RefreshNext ==
  \/ \E path \in RefreshPaths : RefreshEndpointCall(path)
  \/ RefreshStoreWrite
  \/ \E r \in Slots, path \in RefreshPaths : RefreshInvoke(r, path)
  \/ \E r \in Slots : RefreshReturn(r)

RefreshSpec == RefreshInit /\ [][RefreshNext]_vars

\* Page tables a restarted process may find: the first path is one a PUT
\* /api/pages/{id} stored, the second the one POST /api/pages composes for the
\* user path "/api/a" in project "S"
RestartPages ==
  SUBSET {PageRow(3, <<"/", "a", "p", "i", "/", "s", "/", "d">>, "h1", "pr1", "u1"),
          PageRow(4, <<"/", "s", "/", "a", "p", "i", "/", "a">>, "h2", "pr1", "u1")}

\* a new process: the constructor has started loadAllRoutes, the registry is
\* empty and the Store holds what earlier processes wrote
RestartInit ==
  /\ projects = [id \in ProjIds |->
        IF id = "pr1" THEN [id |-> "pr1", name |-> <<"S">>, userId |-> "u1"]
        ELSE [id |-> "pr2", name |-> <<"s">>, userId |-> "u2"]]
  /\ endpoints \in RefreshStores
  /\ pages \in RestartPages
  /\ nextId = 5
  /\ dynamicRoutes = EmptyRoutes
  /\ legacyRoutes = EmptyRoutes
  /\ isInitialized = FALSE
  /\ initializationPromise = "pending"
  /\ load = "getAllEndpoints"
  /\ scansStarted = 1
  /\ reqs = [r \in Slots |-> Idle]
  /\ last = Idle
  /\ started = 0

\* the scan of the new process, with no request in between
RestartNext == LoadEndpoints \/ LoadPages \/ LoadFail

RestartSpec == RestartInit /\ [][RestartNext]_vars

\* the restarted process serving requests of the catch-all route
ResolveNext ==
  \/ RestartNext
  \/ \E r \in Slots, path \in RequestPaths :
       \/ \E query \in Queries : DispatchStart(r, path, "GET", query, InvalidJson)
       \/ \E json \in JsonBodies : DispatchStart(r, path, "POST", <<>>, json)
  \/ \E r \in Slots : DispatchAwait(r) \/ DispatchServe(r)

ResolveSpec == RestartInit /\ [][ResolveNext]_vars

\* path segments: "api", one that begins with "api", a project slug, and the
\* empty segment (two slashes in a row)
PathSegments == {<<"a", "p", "i">>, <<"a", "p", "i", "s">>, <<"s">>, <<>>}

MaxSegments == 3

\* n segments joined with '/'
RECURSIVE JoinedSegments(_)
JoinedSegments(n) ==
  IF n = 0 THEN {<<>>}
  ELSE IF n = 1 THEN PathSegments
  ELSE {x \o SLASH \o y : x \in PathSegments, y \in JoinedSegments(n - 1)}

\* path strings, with and without a leading and a trailing '/'
PathInputs ==
  LET raw == UNION {JoinedSegments(n) : n \in 0..MaxSegments}
  IN  raw \cup {SLASH \o x : x \in raw} \cup {x \o SLASH : x \in raw}
      \cup {SLASH \o x \o SLASH : x \in raw}

\* a path string is about to be normalised
PathInit ==
  /\ projects = [id \in ProjIds |->
        IF id = "pr1" THEN [id |-> "pr1", name |-> <<"S">>, userId |-> "u1"]
        ELSE [id |-> "pr2", name |-> <<"s">>, userId |-> "u2"]]
  /\ endpoints = {}
  /\ pages = {}
  /\ nextId = 1
  /\ dynamicRoutes = EmptyRoutes
  /\ legacyRoutes = EmptyRoutes
  /\ isInitialized = FALSE
  /\ initializationPromise = "pending"
  /\ load = "getAllEndpoints"
  /\ scansStarted = 1
  /\ reqs = [r \in Slots |-> Idle]
  /\ \E p \in PathInputs : last = [op |-> "path", pc |-> "idle", path |-> p]
  /\ started = 0

\* this.sanitizePath(path)
SanitizeCall ==
  /\ last.op = "path"
  /\ last' = [op |-> "sanitizePath", pc |-> "idle", path |-> last.path,
              result |-> sanitizePath(last.path)]
  /\ UNCHANGED <<store, dynamicRoutes, legacyRoutes, initState, reqs, started>>

\* the catch-all route hands '/' + segments.join('/') to handleRequest, which
\* computes the key it looks up
CanonicaliseCall ==
  /\ last.op = "path"
  /\ StartsWith(last.path, SLASH)
  /\ last' = [op |-> "handleRequest", pc |-> "idle", path |-> last.path,
              result |-> CanonicalKey(last.path)]
  /\ UNCHANGED <<store, dynamicRoutes, legacyRoutes, initState, reqs, started>>

PathNext == SanitizeCall \/ CanonicaliseCall

PathSpec == PathInit /\ [][PathNext]_vars

\* ================================================================ properties
\* no handler is in flight and the initialization scan is through
Quiet == InFlight = {} /\ isInitialized

StorePaths == {e.path : e \in endpoints} \cup {p.path : p \in pages}

\* the catch-all path of a request to the address p, p beginning with /api/
CatchAllPath(p) == Slice(p, Len(API) + 1)

\* a handler in flight that may still write the endpoint row id
EndpointWriterInFlight(id) ==
  \E r \in Slots : reqs[r].op \in {"putEndpoint", "deleteEndpoint"} /\ reqs[r].id = id

\* C1: once no operation is in flight, the paths held by the dispatcher's
\* registry are exactly the paths of the Endpoint and Page rows of the Store
C1_RegistryConvergence == Quiet => getRegisteredRoutes = StorePaths

\* C2: after POST /api/endpoints answered 201 for user path u, method m and
\* project slug s, a request with method m to /api/s/u is answered 200 with
\* the result of that endpoint's handler
C2_CreatedEndpointServed ==
  (/\ last.op = "postEndpoint" /\ last.status = 201 /\ isInitialized
   /\ getEndpointById(last.id) # NoRow
   /\ ~EndpointWriterInFlight(last.id)
   /\ VmOutcome(getEndpointById(last.id).code) = "Function")
  => LET E == getEndpointById(last.id)
         resp == handleRequest(SLASH \o last.slug \o LeadingSlash(last.userPath),
                               E.httpMethod, TRUE)
     IN  resp.status = 200 /\ resp.body = [kind |-> "result", code |-> E.code]

\* C3: after DELETE /api/endpoints/{id} answered 200 for an endpoint registered
\* at path p, a dispatch request to p is answered 404 {"error":"Not found"},
\* whatever its method
C3_DeletedEndpointGone ==
  (/\ last.op = "deleteEndpoint" /\ last.status = 200 /\ isInitialized
   /\ StartsWith(last.oldPath, APISLASH)
   /\ last.oldPath \notin StorePaths
   /\ \A r \in Slots : reqs[r].pc = "idle")
  => \A m \in Methods :
       LET resp == handleRequest(CatchAllPath(last.oldPath), m, TRUE)
       IN  resp.status = 404 /\ resp.body = ErrorBody("Not found")

\* C4: after PUT /api/endpoints/{id} that changes only the code answered 200,
\* a dispatch to the endpoint's path runs a handler compiled from the new code
C4_UpdatedCodeServed ==
  (/\ last.op = "putEndpoint" /\ last.status = 200 /\ isInitialized
   /\ last.data.code # Undefined /\ last.data.path = Missing
   /\ getEndpointById(last.id) # NoRow
   /\ ~EndpointWriterInFlight(last.id)
   /\ getEndpointById(last.id).code = last.data.code
   /\ StartsWith(getEndpointById(last.id).path, APISLASH))
  => LET E == getEndpointById(last.id)
         resp == handleRequest(CatchAllPath(E.path), E.httpMethod, TRUE)
     IN  resp.status = 200 /\ resp.body = [kind |-> "result", code |-> last.data.code]

\* C5: after PUT /api/endpoints/{id} with {path: b} answered 200 for an endpoint
\* that was at path a # b, a dispatch to a is answered 404 and a dispatch to b
\* with the endpoint's method is answered 200 by the endpoint's handler
C5_PathMigrates ==
  (/\ last.op = "putEndpoint" /\ last.status = 200 /\ isInitialized
   /\ last.data.path # Missing /\ last.data.path # last.oldPath
   /\ StartsWith(last.oldPath, APISLASH) /\ StartsWith(last.data.path, APISLASH)
   /\ getEndpointById(last.id) # NoRow
   /\ getEndpointById(last.id).path = last.data.path
   /\ last.oldPath \notin StorePaths
   /\ \A r \in Slots : reqs[r].pc = "idle")
  => LET E == getEndpointById(last.id)
         atA == handleRequest(CatchAllPath(last.oldPath), E.httpMethod, TRUE)
         atB == handleRequest(CatchAllPath(E.path), E.httpMethod, TRUE)
     IN  /\ atA.status = 404
         /\ atB.status = 200
         /\ atB.body.kind \in {"result", "stub"}
         /\ atB.body.kind = "result" => atB.body.code = E.code

\* C6: of two concurrent POST /api/endpoints that resolve to the same full
\* path the one that finds the path taken is answered 409, and the Store
\* holds exactly one Endpoint row with that path
C6_RacingCreates ==
  (last.op = "postEndpoint" /\ last.raced)
  => /\ last.status = 409
     /\ Cardinality({e \in endpoints : e.path = last.fullPath}) <= 1

\* ---- C7
EndpointOps == {"getEndpoint", "putEndpoint", "deleteEndpoint"}
PageOps == {"getPage", "putPage", "deletePage"}
CreateOps == {"postEndpoint", "generateEndpoint", "postPage", "generatePage"}
ToolOps == {"updateProject", "deleteProject"}

\* a was issued on a row that was in the Store and had another owner
CrossOwner(a) ==
  /\ a.op \in EndpointOps \cup PageOps \cup CreateOps \cup ToolOps
  /\ a.target # "nobody"
  /\ a.target # a.user

\* a create request that lacks a field the route requires
RequiredMissing(a) ==
  \/ a.op \in {"postEndpoint", "postPage"} /\ a.userPath = Missing
  \/ a.op \in {"generateEndpoint", "generatePage"} /\ a.description = Missing

\* the step is one of a request of user u
Acting(u) ==
  \E r \in Slots : /\ reqs[r].pc # "idle"
                   /\ reqs[r].user = u
                   /\ reqs'[r].pc # reqs[r].pc

\* a dispatch looks its route up and runs the handler
DispatchRuns ==
  \E r \in Slots :
    /\ reqs[r].op = "dispatch" /\ reqs[r].pc = "lookup"
    /\ reqs'[r] # reqs[r]

\* a row is written, removed or added by a step of a CRUD request only if the
\* request is its owner's (what guest code does to the Store during a dispatch
\* is no CRUD request)
RowsKept ==
  \/ DispatchRuns
  \/ /\ \A e \in endpoints : e \notin endpoints' => Acting(e.userId)
     /\ \A e \in endpoints' : e \notin endpoints => Acting(e.userId)
     /\ \A p \in pages : p \notin pages' => Acting(p.userId)
     /\ \A p \in pages' : p \notin pages => Acting(p.userId)
     /\ \A id \in ProjIds :
          (projects'[id] # projects[id] /\ projects[id] # NoProject)
          => Acting(projects[id].userId)

\* how a request on another owner's row is answered
RefusedAsCoded ==
  CrossOwner(last)
  => IF last.op \in ToolOps
     THEN last.body.kind = "tool" /\ last.body.status = "error"
     ELSE IF RequiredMissing(last) THEN last.status = 400
     ELSE last.status = 403

C8_BrokenHandlerVisible ==
  (/\ last.op = "postEndpoint" /\ last.status = 201 /\ isInitialized
   /\ getEndpointById(last.id) # NoRow
   /\ ~EndpointWriterInFlight(last.id)
   /\ VmOutcome(getEndpointById(last.id).code) # "Function")
  => LET E == getEndpointById(last.id)
         resp == handleRequest(SLASH \o last.slug \o LeadingSlash(last.userPath),
                               E.httpMethod, TRUE)
     IN  /\ resp.status = 200
         /\ resp.body.kind = "stub"
         /\ resp.body.details = CompileMessage(E.code, E.path)

\* C9: a dispatch that calls ensureInitialized after the scan has failed finds
\* the registry uninitialized again and starts a new scan
C9_FailedInitRetried ==
  (last.op = "dispatch" /\ last.sawPromise = "rejected")
  => scansStarted >= 2

\* ---- C10
\* the scan is started at most once; a caller is past ensureInitialized only
\* when the scan is through
ScanOnce ==
  /\ scansStarted <= 1
  /\ \A r \in Slots :
       (reqs[r].op = "dispatch" /\ reqs[r].pc = "lookup") => load = "done"
  /\ last.op = "dispatch" => load \in {"done", "failed"}

\* a call of ensureInitialized made when the registry is ready goes straight
\* on, starting no scan and changing neither the Store nor the registry
ReadyCallIsNoOp ==
  \A r \in Slots :
    (/\ reqs[r].pc = "idle" /\ reqs'[r].pc # "idle"
     /\ reqs'[r].op = "dispatch" /\ isInitialized)
    => /\ reqs'[r].pc = "lookup"
       /\ UNCHANGED <<store, dynamicRoutes, legacyRoutes, initState>>

\* C10: the Store scan is started at most once, a caller of ensureInitialized
\* that arrives during the scan goes on only after the scan has ended, and a
\* call made when the registry is ready changes nothing
C10_InitOnce == []ScanOnce /\ [][ReadyCallIsNoOp]_vars

\* a caller that arrived during the scan has been answered after it, while a
\* second caller that also arrived during the scan is past ensureInitialized
C10_Witness ==
  /\ last.op = "dispatch" /\ last.sawPromise = "pending" /\ last.branch = "await"
  /\ load = "done" /\ scansStarted = 1
  /\ \E r \in Slots : /\ reqs[r].op = "dispatch" /\ reqs[r].pc = "lookup"
                     /\ reqs[r].sawPromise = "pending"

\* C11: a create-endpoint answered 201 for user path u in the project of slug
\* s stores and registers the endpoint under exactly "/api/" + s + normalized(u),
\* and a create-page answered 201 under "/" + s + normalized(u), where
\* normalized(u) adds a missing leading '/' and strips a trailing '/'
C11_PathComposition ==
  /\ (last.op = "postEndpoint" /\ last.status = 201)
     => last.fullPath = APISLASH \o last.slug \o sanitizePath(last.userPath)
  /\ (last.op = "postPage" /\ last.status = 201)
     => last.fullPath = SLASH \o last.slug \o sanitizePath(last.userPath)

\* C12: after POST /api/pages answered 201 for user path u and content h in the
\* project of slug s, and until the page is updated or deleted, a GET of /s/u
\* is answered 200 with Content-Type text/html and a body equal to h
C12_PageServedVerbatim ==
  (/\ last.op = "postPage" /\ last.status = 201
   /\ getPageById(last.id) # NoRow
   /\ getPageById(last.id).path = last.fullPath)
  => LET resp == DynamicPageDocument(SLASH \o last.slug \o LeadingSlash(last.userPath))
     IN  /\ resp.status = 200
         /\ resp.body = [kind |-> "html",
                         htmlContent |-> getPageById(last.id).htmlContent]

\* C13: a request to create a page at a path beginning with /api/ is rejected
\* (400 when the requester owns the project) and leaves no Page row, and no
\* Page row of the Store ever has a path beginning with /api/
C13_NoPageUnderApi ==
  /\ \A p \in pages : ~StartsWith(p.path, APISLASH)
  /\ (/\ last.op = "postPage" /\ last.userPath # Missing
      /\ StartsWith(LeadingSlash(last.userPath), APISLASH))
     => /\ last.status # 201
        /\ last.target = last.user => last.status = 400

\* the step is one of a request that creates or updates a page
PageWriteStep ==
  \E r \in Slots : /\ reqs[r].op \in {"postPage", "generatePage", "putPage"}
                   /\ reqs'[r].pc # reqs[r].pc

\* every RouteInfo of an endpoint is in the registry after the step as before
EndpointRoutesKept ==
  \A k \in DOMAIN dynamicRoutes :
    dynamicRoutes[k].type = "endpoint"
    => k \in DOMAIN dynamicRoutes' /\ dynamicRoutes'[k] = dynamicRoutes[k]

\* C14: creating or updating a page never removes or replaces the RouteInfo of
\* a registered endpoint
C14_PagesKeepEndpoints == [][PageWriteStep => EndpointRoutesKept]_vars

\* the path prefixes of the application's own routes
ReservedPrefixes ==
  {<<"/", "a", "p", "i", "/", "p", "r", "o", "j", "e", "c", "t", "s", "/">>,
   <<"/", "a", "p", "i", "/", "p", "a", "g", "e", "s", "/">>,
   <<"/", "a", "p", "i", "/", "e", "n", "d", "p", "o", "i", "n", "t", "s", "/">>,
   <<"/", "a", "p", "i", "/", "d", "e", "b", "u", "g", "/">>,
   <<"/", "a", "p", "i", "/", "a", "u", "t", "h", "/">>}

Reserved(path) == \E pre \in ReservedPrefixes : StartsWith(path, pre)

\* C15: no Endpoint row and no registry entry of an endpoint has a path that
\* begins with /api/projects/, /api/pages/, /api/endpoints/, /api/debug/ or
\* /api/auth/
C15_ReservedPaths ==
  /\ \A e \in endpoints : ~Reserved(e.path)
  /\ \A k \in DOMAIN dynamicRoutes :
       dynamicRoutes[k].type = "endpoint" => ~Reserved(k)
  /\ \A k \in DOMAIN legacyRoutes : ~Reserved(k)

\* the values the query string gives for the key name
QueryValues(query, name) ==
  {JsString(query[i][2]) : i \in {j \in 1..Len(query) : query[j][1] = name}}

\* the step answers a dispatch of slot r by calling the handler of its route
Invokes(r, method) ==
  /\ reqs[r].op = "dispatch" /\ reqs[r].pc = "lookup" /\ reqs[r].method = method
  /\ reqs'[r].pc = "idle"
  /\ last'.invoked

\* the declared parameters of the route the dispatch of slot r is served by
DeclaredParameters(r) ==
  LET ps == dynamicRoutes[CanonicalKey(reqs[r].path)].parameters
  IN  {ps[i] : i \in 1..Len(ps)}

GetMarshalled ==
  \A r \in Slots :
    Invokes(r, "GET")
    => /\ DOMAIN last'.params = DeclaredParameters(r)
       /\ \A p \in DeclaredParameters(r) :
            IF QueryValues(reqs[r].query, p) = {}
            THEN last'.params[p] = JsNull
            ELSE last'.params[p] \in QueryValues(reqs[r].query, p)

\* C16: the handler of a GET dispatch is called with a dictionary whose keys
\* are exactly the declared parameters; each maps to the query string's value
\* for it, a string, or to null when the query string has no such key; query
\* keys that are not declared are not passed
C16_GetMarshalling == [][GetMarshalled]_vars

\* a GET with ?q=5&z=1 to an endpoint declaring q was handed {q: "5"}
C16_Witness ==
  /\ last.op = "dispatch" /\ last.method = "GET" /\ last.invoked
  /\ last.query # <<>>
  /\ last.params = [q |-> JsString("5")]

\* the step answers a POST dispatch of slot r whose route is a POST endpoint
AnswersPostEndpoint(r) ==
  /\ reqs[r].op = "dispatch" /\ reqs[r].pc = "lookup" /\ reqs[r].method = "POST"
  /\ reqs'[r].pc = "idle"
  /\ CanonicalKey(reqs[r].path) \in DOMAIN dynamicRoutes
  /\ dynamicRoutes[CanonicalKey(reqs[r].path)].type = "endpoint"
  /\ dynamicRoutes[CanonicalKey(reqs[r].path)].httpMethod = "POST"

PostMarshalled ==
  \A r \in Slots :
    AnswersPostEndpoint(r)
    => IF reqs[r].json.ok
       THEN last'.invoked /\ last'.params = reqs[r].json.value
       ELSE /\ ~last'.invoked
            /\ last'.status = 400
            /\ last'.body = ErrorBody("Invalid JSON body")

\* C17: the handler of a POST dispatch to a POST endpoint is called with the
\* decoded JSON body as its whole parameter dictionary, JSON types preserved,
\* whatever parameters the endpoint declares; a body that is not valid JSON is
\* answered 400 {"error":"Invalid JSON body"} without calling the handler
C17_PostMarshalling == [][PostMarshalled]_vars

\* a POST with body {"x":5} to an endpoint declaring q was handed {x: 5}
C17_Witness ==
  /\ last.op = "dispatch" /\ last.method = "POST" /\ last.invoked
  /\ last.params = [x |-> JsNumber(5)]
  /\ last.status = 200

\* the function the dispatch of slot r is served by
RouteFunction(r) == dynamicRoutes[CanonicalKey(reqs[r].path)].function

\* the step calls the handler of the dispatch of slot r, and the handler raises
HandlerRaises(r) ==
  /\ reqs[r].op = "dispatch" /\ reqs[r].pc = "lookup" /\ reqs'[r].pc = "idle"
  /\ last'.invoked
  /\ RunOutcome(RouteFunction(r), last'.params).threw

RaisedIsReported ==
  \A r \in Slots :
    HandlerRaises(r)
    => /\ last'.status = 500
       /\ last'.body = [kind |-> "error", error |-> "Error executing endpoint",
                        details |-> RunOutcome(RouteFunction(r), last'.params).message]
       /\ UNCHANGED <<store, dynamicRoutes, legacyRoutes>>

\* C18: a runtime error raised by a handler during dispatch is answered 500
\* {"error":"Error executing endpoint","details":<message>} and changes neither
\* the registry nor the Store, so that a later dispatch to the path calls the
\* same handler
C18_RuntimeErrorReported == [][RaisedIsReported]_vars

\* a POST with body {} was answered 500 by the dispatcher's catch, and the
\* handler that raised is still the one registered at the path
C18_Witness ==
  /\ last.op = "dispatch" /\ last.invoked /\ last.status = 500
  /\ last.body.error = "Error executing endpoint"
  /\ CanonicalKey(last.path) \in DOMAIN dynamicRoutes
  /\ dynamicRoutes[CanonicalKey(last.path)].function = [kind |-> "compiled", code |-> "deref"]

\* C19: every dispatch is eventually answered (with 504 when its handler does
\* not return within the budget): no dispatch request waits forever
C19_DispatchAnswered ==
  \A r \in Slots :
    (reqs[r].op = "dispatch" /\ reqs[r].pc # "idle") ~> (reqs[r].pc = "idle")

\* what the registry holds at path: its RouteInfo, if any
Entry(routes, path) == IF path \in DOMAIN routes THEN {routes[path]} ELSE {}

\* the step is a second refresh of a path, the Store untouched since the first
RefreshedAgain ==
  /\ last.op = "refreshEndpoint"
  /\ last'.op = "refreshEndpoint"
  /\ last'.path = last.path
  /\ last'.again

\* C20: refreshEndpoint(p) called twice with no Store mutation in between
\* leaves the registry entry at p (presence, type, parameters, method, language
\* and compiled code) after the second call as it was after the first
C20_RefreshIdempotent ==
  [][RefreshedAgain => Entry(dynamicRoutes', last.path) = Entry(dynamicRoutes, last.path)]_vars

\* p, the path of a Python endpoint, was refreshed twice in a row, and the
\* registry holds at p the endpoint compiled from the row's code
C20_Witness ==
  /\ last.op = "refreshEndpoint" /\ last.again
  /\ getEndpointByPath(last.path) # NoRow
  /\ Entry(dynamicRoutes, last.path) =
       {JsRouteInfo(last.path, <<"q">>, getEndpointByPath(last.path).code, "GET")}
  /\ getEndpointByPath(last.path).language = "python"

\* C21: a create-endpoint or create-page request whose projectId matches no
\* Project row, and a get, update or delete by an id that matches no Endpoint
\* or Page row, is answered 404
C21_MissingRows404 ==
  /\ (/\ last.op \in {"postEndpoint", "postPage"}
      /\ last.userPath # Missing
      /\ last.target = "nobody")
     => last.status = 404
  /\ (last.op \in EndpointOps \cup PageOps /\ last.target = "nobody")
     => last.status = 404

\* the body of a PUT /api/endpoints/{id} supplies a creatable field
SuppliesField(data) ==
  \/ data.path # Missing
  \/ data.code # Undefined
  \/ data.parameters # {}
  \/ data.httpMethod # Undefined
  \/ data.language # Undefined

\* the row holds the value of every field the body supplied
HoldsSupplied(e, data) ==
  /\ data.path # Missing => e.path = data.path
  /\ data.code # Undefined => e.code = data.code
  /\ data.parameters # {} => e.parameters = JoinParams(CHOOSE ps \in data.parameters : TRUE)
  /\ data.httpMethod # Undefined => e.httpMethod = data.httpMethod
  /\ data.language # Undefined => e.language = data.language

\* C22: PUT /api/endpoints/{id} by the owner is answered 400 when the body has
\* none of the fields path, code, parameters, httpMethod, language, and 200
\* when it has some of them, after which the row holds each supplied value
\* (a write the Store refuses, answered 500, is left aside)
C22_PutEndpointFields ==
  (/\ last.op = "putEndpoint" /\ last.target = last.user
   /\ last.status # 500)
  => IF ~SuppliesField(last.data) THEN last.status = 400
     ELSE /\ last.status = 200
          /\ (getEndpointById(last.id) # NoRow /\ ~EndpointWriterInFlight(last.id))
             => HoldsSupplied(getEndpointById(last.id), last.data)

\* the keys of the registry that hold an endpoint RouteInfo
EndpointKeys == {k \in DOMAIN dynamicRoutes : dynamicRoutes[k].type = "endpoint"}

\* C23: the path of every Endpoint row, and every key of the registry that
\* holds an endpoint, begins with /api/
C23_EndpointPathsUnderApi ==
  /\ \A e \in endpoints : StartsWith(e.path, APISLASH)
  /\ \A k \in EndpointKeys : StartsWith(k, APISLASH)

\* C24: the http_method of every Endpoint row and of every endpoint RouteInfo
\* is GET or POST
C24_MethodGetOrPost ==
  /\ \A e \in endpoints : e.httpMethod \in Methods
  /\ \A k \in EndpointKeys : dynamicRoutes[k].httpMethod \in Methods

\* C25: the step of a dispatch that executes a handler leaves the registry and
\* the Store as they were, whatever the guest code is
C25_GuestIsolated ==
  [][DispatchRuns => (store' = store /\ dynamicRoutes' = dynamicRoutes)]_vars

\* the requests inside registerEndpoint: the placeholder is installed and the
\* interpreter has not answered yet
Registering == {r \in Slots : reqs[r].op = "generateEndpoint" /\ reqs[r].pc = "python"}

\* C26: at any time at most one registration of the registry is between its
\* start and its end
C26_WritersSerialized == Cardinality(Registering) <= 1

\* C27: a dispatch is never answered by the placeholder handler that stands in
\* the registry while a registration is under way
C27_NoPlaceholderServed ==
  (last.op = "dispatch" /\ last.invoked) => last.body.kind # "loading"

\* a refresh destroys the sandbox handle of the entry at path p
TearsDown(p) ==
  /\ last'.op = "refreshEndpoint" /\ last'.path = p /\ last'.released
  /\ dynamicRoutes' # dynamicRoutes

\* an invocation of the handler at path p has not returned
Executing(p) == \E r \in Slots : reqs[r].pc = "running" /\ reqs[r].path = p

\* C28: the handle of a handler is not torn down while an invocation of that
\* handler is executing
C28_ReleaseDeferred ==
  [][\A p \in RefreshPaths : TearsDown(p) => ~Executing(p)]_vars

\* the step replaces or removes the entry at key k
Displaces(k) ==
  k \notin DOMAIN dynamicRoutes' \/ dynamicRoutes'[k] # dynamicRoutes[k]

\* the step is a refresh of k that destroyed the handle of the entry
ReleasesHandle(k) ==
  last'.op = "refreshEndpoint" /\ last'.path = k /\ last'.released

\* C29: whenever a registry entry that holds a sandbox handle is replaced or
\* removed, the handle is released by that operation
C29_ReleaseBeforeReplace ==
  [][\A k \in DOMAIN dynamicRoutes :
       (HoldsHandle(dynamicRoutes[k]) /\ Displaces(k)) => ReleasesHandle(k)]_vars

\* the entries that mirror an Endpoint row: an endpoint of the row's
\* parameters, method and language, its handler compiled from the row's code
MirrorsOf(row) ==
  IF row.language = "python"
  THEN {PythonRouteInfo(row.path, SplitParams(row.parameters), row.code,
                        row.httpMethod, o) : o \in PythonOutcomes}
  ELSE {JsRouteInfo(row.path, SplitParams(row.parameters), row.code,
                    row.httpMethod)}

\* C30: after refreshEndpoint(p) the registry holds at p the endpoint that
\* mirrors the Endpoint row at p (a Python row is registered as a Python
\* handler), and holds no entry at p when there is no such row
C30_RefreshMirrorsStore ==
  last.op = "refreshEndpoint"
  => LET row == getEndpointByPath(last.path)
     IN  IF row = NoRow
         THEN last.path \notin DOMAIN dynamicRoutes
         ELSE /\ last.path \in DOMAIN dynamicRoutes
              /\ dynamicRoutes[last.path] \in MirrorsOf(row)

\* C31: once the scan of a restarted process has completed, the registry
\* holds for every Endpoint row an endpoint RouteInfo at its path with the
\* row's parameters, method and language, for every Page row a page RouteInfo
\* with the row's html_content, and no other entry
C31_RebuildAfterRestart ==
  isInitialized
  => /\ DOMAIN dynamicRoutes = StorePaths
     /\ \A e \in endpoints : dynamicRoutes[e.path] \in MirrorsOf(e)
     /\ \A p \in pages : dynamicRoutes[p.path] = PageRouteInfo(p.path, p.htmlContent)

\* the dispatch in slot r resolves as claimed: its handler runs only if the
\* registry holds at the canonical path an endpoint of the request's method,
\* and otherwise the answer is the Store's Page at that path, or 404
ResolvesAsClaimed(r) ==
  LET key == CanonicalKey(reqs[r].path)
      matched == /\ key \in DOMAIN dynamicRoutes
                 /\ dynamicRoutes[key].type = "endpoint"
                 /\ reqs[r].method = dynamicRoutes[key].httpMethod
      hung == reqs'[r].pc = "running"
      page == getPageByPath(key)
  IN  /\ (hung \/ last'.invoked) => matched
      /\ ~matched
         => /\ ~hung
            /\ IF page # NoRow
               THEN /\ last'.status = 200
                    /\ last'.body = [kind |-> "html", htmlContent |-> page.htmlContent]
               ELSE /\ last'.status = 404
                    /\ last'.body = ErrorBody("Not found")

StripTrailingSlash(p) ==
  IF p # SLASH /\ Len(p) > 0 /\ p[Len(p)] = "/" THEN SubSeq(p, 1, Len(p) - 1) ELSE p

\* C33: for the remaining path r of a request on the /api catch-all, the key
\* the dispatcher looks up is "/api" + r with a trailing '/' stripped
C33_LookupKey ==
  last.op = "handleRequest" => last.result = StripTrailingSlash(API \o last.path)

\* p with a leading '/' added when it has none
WithLeadingSlash(p) == IF Len(p) > 0 /\ p[1] = "/" THEN p ELSE SLASH \o p

\* C34: sanitizePath(p) begins with '/', equals p with a leading '/' added
\* when missing and exactly one trailing '/' removed, and returns "/" unchanged
C34_PathNormalization ==
  last.op = "sanitizePath"
  => /\ last.result[1] = "/"
     /\ last.result = StripTrailingSlash(WithLeadingSlash(last.path))
     /\ last.path = SLASH => last.result = SLASH

\* a path without a leading and with two trailing slashes was normalised
C34_Witness ==
  /\ last.op = "sanitizePath"
  /\ last.path = <<"s", "/", "/">>
  /\ last.result = <<"/", "s", "/">>

\* the positions of a request at its Store write, and after a write that
\* succeeded
WritePcs == {"insert", "update", "delete"}
AfterWritePcs == {"register", "python", "respond", "refresh", "sync", "unregister"}

\* slot r holds a create, update or delete of an endpoint or page and takes
\* the step
CrudStep(r) ==
  /\ reqs[r].op \in EndpointOps \cup PageOps \cup CreateOps
  /\ reqs'[r].pc # reqs[r].pc

RegistryChanges == dynamicRoutes' # dynamicRoutes \/ legacyRoutes' # legacyRoutes

\* C35: a create, update or delete of an endpoint or page changes the
\* registry only after its Store write has succeeded, and a request whose
\* Store write fails leaves the registry as it was
C35_StoreBeforeRegistry ==
  [][\A r \in Slots :
       CrudStep(r)
       => /\ RegistryChanges => reqs[r].pc \in AfterWritePcs
          /\ (reqs[r].pc \in WritePcs /\ reqs'[r].pc = "idle") => ~RegistryChanges]_vars

\* the loser of two racing creates was answered 500 and the registry holds at
\* the path the endpoint of the row that is in the Store
C35_Witness ==
  /\ last.op = "postEndpoint" /\ last.status = 500 /\ last.raced
  /\ last.fullPath \in DOMAIN dynamicRoutes
  /\ getEndpointByPath(last.fullPath) # NoRow
  /\ LET row == getEndpointByPath(last.fullPath)
     IN  dynamicRoutes[last.fullPath] =
           JsRouteInfo(row.path, SplitParams(row.parameters), row.code, row.httpMethod)

\* C36: a create, update or delete whose Store write succeeded is answered
\* with its success status (201 or 200) whatever the registry call that
\* follows does, and the Store keeps the written row
C36_RegistryFailureTolerated ==
  [][\A r \in Slots :
       (CrudStep(r) /\ reqs[r].pc \in AfterWritePcs /\ reqs'[r].pc = "idle")
       => (last'.status \in {200, 201} /\ store' = store)]_vars

\* the delete in slot r removes the Project row if id and owner match, says
\* whether it did, and touches nothing else
DeletesOnlyProject(r) ==
  LET id == reqs[r].projectId
      matched == projects[id] # NoProject /\ projects[id].userId = reqs[r].user
  IN  /\ endpoints' = endpoints /\ pages' = pages
      /\ dynamicRoutes' = dynamicRoutes /\ legacyRoutes' = legacyRoutes
      /\ \A o \in ProjIds \ {id} : projects'[o] = projects[o]
      /\ projects'[id] = IF matched THEN NoProject ELSE projects[id]
      /\ last'.body.status = IF matched THEN "success" ELSE "error"

OwnedByOther(k, u) ==
  \/ \E e \in endpoints : e.path = k /\ e.userId # u
  \/ \E p \in pages : p.path = k /\ p.userId # u

\* C38: no step of a create, update or delete request changes or removes the
\* RouteInfo registered at the path of an endpoint or page that belongs to
\* another owner
C38_RegistryNonInterference ==
  [][\A r \in Slots :
       CrudStep(r)
       => \A k \in DOMAIN dynamicRoutes :
            OwnedByOther(k, reqs[r].user)
            => (k \in DOMAIN dynamicRoutes' /\ dynamicRoutes'[k] = dynamicRoutes[k])]_vars

\* slot r holds a dispatch, or takes one in, and takes the step
DispatchStep(r) ==
  /\ reqs[r].op = "dispatch" \/ reqs'[r].op = "dispatch"
  /\ reqs'[r] # reqs[r]

\* C39: once the scan is through, no step of a dispatch, whatever its path,
\* method, body and outcome, changes the registry or writes to the Store
C39_DispatchReadOnly ==
  [][\A r \in Slots :
       (isInitialized /\ DispatchStep(r))
       => /\ dynamicRoutes' = dynamicRoutes /\ legacyRoutes' = legacyRoutes
          /\ store' = store]_vars
====
